---- MODULE Spec2Model ----
(***************************************************************************)
(* Verification model of the streaming data plane of xn_esp32_esptts:      *)
(*   - simple_ring_buffer.c : byte ring buffer (overwrite-oldest)          *)
(*   - opus_buffer.c        : packet buffer (reject-on-full)               *)
(*   - coze_websocket.cpp / coze_chat.cpp : fragment reassembly, the       *)
(*     length-prefixed framing written by the OnData callback and read by  *)
(*     json_parser_task.                                                   *)
(*                                                                         *)
(* Specifications:                                                         *)
(*   Spec        one writer task and one reader task calling the byte ring *)
(*               buffer API with arbitrary arguments.                      *)
(*   SpecOpus    calls of the packet buffer API.                           *)
(*   SpecFraming the transport delivery task and json_parser_task around   *)
(*               the framing ring buffer.                                  *)
(***************************************************************************)
EXTENDS Integers, Sequences, FiniteSets, TLC

(***************************************************************************)
(* Bounds of the model.                                                    *)
(***************************************************************************)
\* capacity C passed to simple_ring_buffer_create in Spec
RbSize == 3
\* total number of bytes the writer task writes in Spec
MaxWritten == 5
\* packet-count ceiling N and max_packet_size of the packet buffer in SpecOpus
OpusCapacity == 2
OpusMaxPacket == 3
\* total number of packets accepted by the packet buffer in SpecOpus
MaxPackets == 4
\* number of audio_downlink_process calls in SpecDownlink
MaxProcessCalls == 5
\* items a pipeline's ring buffer holds in SpecTeardown
MaxItems == 1
\* audio_downlink_reset_stats calls in SpecStats
MaxResets == 1
\* audio_downlink_process calls between two resets in SpecStats
MaxStatCalls == 3
\* size of the framing buffer in SpecFramingSmall: room for one short message
SmallRingSize == 4
\* FRAME_SIZE of audio_uplink_task (640 in the code)
FrameSize == 2
\* total number of bytes given to coze_chat_send_audio_data in SpecSend
MaxCaptured == 4
\* Connected notifications of the transport in SpecSend
MaxConnects == 2
\* input_audio_buffer.complete and .clear messages sent in SpecSend
MaxControl == 1
\* audio_uplink_task instances created in SpecUplinkLife
MaxStarts == 3
\* calls of simple_ring_buffer_write and of opus_buffer_write in SpecLocks
MaxLockWrites == 1
\* number of frames delivered to coze_audio_callback in SpecPlayback
MaxFrames == 2
\* number of values of one byte in SpecFraming (256 on the device): the sizes
\* of the framing layer are powers of it
ByteBase == 3
\* number of messages the connection delivers in SpecFraming
MaxMsgs == 2

VARIABLES
    rb,        \* simple_ring_buffer_t: buffer, size, write_pos, read_pos
    mutex,     \* rb->mutex: "free", or the task holding it ("W" / "R")
    data_sem,  \* rb->data_sem, a binary semaphore: 0 or 1
    wcall,     \* the writer task's call of simple_ring_buffer_write
    rcall,     \* the reader task's call of simple_ring_buffer_read / _available
    wcount,    \* history: number of bytes stored by completed write loops
    rlog,      \* history: concatenation of the bytes returned by reads
    peak,      \* history: largest number of unread bytes any write needed
    last       \* history: the last critical section that ran, with its arguments

ringVars == <<rb, mutex, data_sem, wcall, rcall, wcount, rlog, peak, last>>

VARIABLES
    ob,        \* opus_buffer_t: buffer, sizes, write_pos, read_pos, count, data_sem
    olast,     \* history: the last packet buffer call, its arguments and result
    ohist,     \* history: packets accepted so far, reads so far (nread:
               \* successful, lost: refused for a small destination)
    downlink   \* audio_downlink_t: total_packets, error_count, buffer_full_count

opusVars == <<ob, olast, ohist, downlink>>

VARIABLES
    net,               \* the connection: the message being delivered, bytes
                       \* delivered, messages started; history of the latest
                       \* message in SpecReassembly: fragments delivered (nfrag),
                       \* fragment_buffer_ not empty when it began (stale),
                       \* their bytes in arrival order (sent), last fragment
                       \* delivered (done), invocations of on_data_ (calls) and
                       \* the data of the latest one (arg)
    fragment_buffer_,  \* CozeWebSocket::fragment_buffer_
    cb,                \* position of the delivery task inside the OnData callback;
                       \* history: messages accepted when the buffer was last
                       \* cleared (-1: never cleared)
    parser,            \* json_parser_task: position, msg_len
    accepted,          \* history: text messages the callback started to queue
    dispatched,        \* history: messages handed to handle_coze_message
    rejected           \* history: messages the callback refused as too long

frameVars == <<net, fragment_buffer_, cb, parser, accepted, dispatched, rejected>>

VARIABLES
    session,   \* coze_chat_t: session_created, and what the configuration set
               \* (event_callback, enable_subtitle) and coze_chat_start created
               \* (audio_downlink)
    hlast      \* history: the latest handle_coze_message call: the envelope's
               \* event_type, the events passed to event_callback, the calls of
               \* audio_downlink_process; tick flips at every call

VARIABLES
    playback   \* the decode task inside coze_audio_callback: position (pc), the
               \* frame (samples), free_space as read; history: frames
               \* delivered, the vTaskDelay and audio_manager_play_audio calls
               \* made for the latest frame (log), delay_ms and ticks of the
               \* wait, samples played, calls of audio_manager_play_audio

dispVars == <<session, hlast, playback>>

VARIABLES
    running,   \* uplink->running, handle->parser_running,
               \* downlink->decode_running
    task,      \* position of audio_uplink_task, json_parser_task and
               \* opus_decode_task in their loops
    pipe,      \* the ring buffer each task reads: alive until destroyed, the
               \* handle field set to NULL (null), buffered items (data),
               \* data_sem (sem); history: the task (task_hit) or a writer
               \* (writer_hit) has used it after it was destroyed
    teardown,  \* position of the thread inside coze_chat_deinit
    transport, \* the websocket client: open until Close, and the position
               \* of its OnData callback (cb)
    build      \* whether pdMS_TO_TICKS(portMAX_DELAY) is portMAX_DELAY

lifeVars == <<running, task, pipe, teardown, transport, build>>

VARIABLES
    start,     \* the thread inside coze_chat_start: its position (pc) and the
               \* value it returned (ret)
    stats      \* the updates of the downlink's counters: for the task inside
               \* audio_downlink_process (process) and for opus_decode_task
               \* (decode) its position (pc) and the counter value it has
               \* loaded (reg); history: the audio_downlink_reset_stats calls
               \* made (resets)

VARIABLES
    ocall      \* the packet buffer's lock protocol: buffer->mutex ("free", or
               \* the task holding it, "W" / "R"), the position of the task
               \* inside opus_buffer_write (w) and of the one inside
               \* opus_buffer_read (r); history: writes entered (nw)

VARIABLES
    link       \* the session's traffic to the server: the position of
               \* audio_uplink_task (pc); history: the Connected notifications
               \* of the transport (nconn), the messages handed to
               \* CozeWebSocket::Send, counted per event_type (sent), the
               \* frames audio_uplink_task passed on, concatenated (pcm), the
               \* outcome of encoding the latest one (enc); and the counters
               \* audio_uplink_task keeps (counters)

VARIABLES
    ulife      \* audio_uplink_t over start and stop calls: running, task (the
               \* handle field: a task's number, 0 for NULL), the position of
               \* the thread inside audio_uplink_stop (api) and of every
               \* audio_uplink_task created so far (tasks)

VARIABLES
    tts        \* xn_tts_context_t: is_playing, and the chunks the engine has
               \* left of the parsed text (chunks); the latest call of the
               \* API (op), what it returned (ret) and stored through data
               \* and len; history: calls made (calls), and whether the
               \* instance was stopped or ran out of audio since the latest
               \* successful start (ended)

apiVars == <<start, stats, ocall, link, ulife, tts>>

apiButStart == <<stats, ocall, link, ulife, tts>>

apiButStats == <<start, ocall, link, ulife, tts>>

apiButOcall == <<start, stats, link, ulife, tts>>

apiButLink == <<start, stats, ocall, ulife, tts>>

apiButUlife == <<start, stats, ocall, link, tts>>

apiButTts == <<start, stats, ocall, link, ulife>>

(***************************************************************************)
(* Helpers on sequences.                                                   *)
(***************************************************************************)
Min(a, b) == IF a < b THEN a ELSE b
Max(a, b) == IF a > b THEN a ELSE b
FirstN(s, n) == SubSeq(s, 1, n)
LastN(s, n) == SubSeq(s, Len(s) - n + 1, Len(s))
\* <<a, a+1, ..., a+n-1>>
Labels(a, n) == [i \in 1..n |-> a + i - 1]

\* content of a cell of heap_caps_malloc'ed memory that was never written
Junk == -1

\* portMAX_DELAY as a timeout_ms: the wait has no end (the largest integer
\* here, 0xffffffff in the code)
PortMaxDelay == 2147483647

(***************************************************************************)
(* simple_ring_buffer.c                                                    *)
(***************************************************************************)
\* simple_ring_buffer_create: size, write_pos = read_pos = 0, the buffer is
\* not zeroed by heap_caps_malloc
RbCreate(size) ==
    [buffer |-> [i \in 0..(size - 1) |-> Junk], size |-> size,
     write_pos |-> 0, read_pos |-> 0]

\* the occupancy computation with the wrapped case missing its write_pos term
RbAvailableNoWrap(r) ==
    IF r.write_pos >= r.read_pos
    THEN r.write_pos - r.read_pos
    ELSE r.size - r.read_pos

\* the occupancy computation of simple_ring_buffer_read / _available
RbAvailable(r) ==
    IF r.write_pos >= r.read_pos
    THEN r.write_pos - r.read_pos
    ELSE r.size - r.read_pos + r.write_pos

\* the body of simple_ring_buffer_write's loop, as a bug would have it:
\* the read pointer is pushed before the write pointer has caught up with it
RbWriteByteEarlyPush(r, b) ==
    LET wp == (r.write_pos + 1) % r.size
    IN  [r EXCEPT !.buffer[r.write_pos] = b,
                  !.write_pos = wp,
                  !.read_pos = IF (wp + 1) % r.size = r.read_pos
                               THEN (r.read_pos + 1) % r.size
                               ELSE r.read_pos]

\* the body of simple_ring_buffer_write's loop, without the wrap of read_pos
RbWriteByteNoWrap(r, b) ==
    LET wp == (r.write_pos + 1) % r.size
    IN  [r EXCEPT !.buffer[r.write_pos] = b,
                  !.write_pos = wp,
                  !.read_pos = IF wp = r.read_pos
                               THEN r.read_pos + 1
                               ELSE r.read_pos]

\* one iteration of simple_ring_buffer_write's loop
RbWriteByte(r, b) ==
    LET wp == (r.write_pos + 1) % r.size
    IN  [r EXCEPT !.buffer[r.write_pos] = b,
                  !.write_pos = wp,
                  !.read_pos = IF wp = r.read_pos
                               THEN (r.read_pos + 1) % r.size
                               ELSE r.read_pos]

RECURSIVE RbWriteFrom(_, _, _)
RbWriteFrom(r, data, i) ==
    IF i > Len(data) THEN r
    ELSE RbWriteFrom(RbWriteByte(r, data[i]), data, i + 1)

\* the whole loop of simple_ring_buffer_write: for (i = 0; i < len; i++)
RbWriteLoop(r, data) == RbWriteFrom(r, data, 1)

\* The values rb->read_pos and rb->write_pos take while the loop runs,
\* the moments between the two assignments of one iteration included.
RECURSIVE RbWritePosTrace(_, _, _)
RbWritePosTrace(r, data, i) ==
    IF i > Len(data) THEN [rp |-> {r.read_pos}, wp |-> {r.write_pos}]
    ELSE LET n  == RbWriteByte(r, data[i])
             t  == RbWritePosTrace(n, data, i + 1)
         IN  [rp |-> {r.read_pos} \cup t.rp, wp |-> {r.write_pos} \cup t.wp]

\* the copy loop of simple_ring_buffer_read: to_read = min(len, available)
RECURSIVE RbReadFrom(_, _, _)
RbReadFrom(r, out, n) ==
    IF n = 0 THEN [rb |-> r, out |-> out]
    ELSE RbReadFrom([r EXCEPT !.read_pos = (r.read_pos + 1) % r.size],
                    Append(out, r.buffer[r.read_pos]), n - 1)

\* a copy loop that takes len bytes whatever is available
RbReadLoopAll(r, len) == RbReadFrom(r, <<>>, len)

RbReadLoop(r, len) == RbReadFrom(r, <<>>, Min(len, RbAvailable(r)))

\* the unread bytes of r, oldest first
Unread(r) == RbReadLoop(r, r.size).out

(***************************************************************************)
(* opus_buffer.c                                                           *)
(***************************************************************************)
\* sizeof(opus_packet_header_t): one uint16_t
HeaderSize == 2
\* the values one byte of never-written memory is taken to hold when a
\* header is read from it: 0 .. max_packet_size + 1 (every size above the
\* destination behaves alike)
JunkByte == 0..(OpusMaxPacket + 1)

\* opus_buffer_create
OpusCreate(capacity, max_packet_size) ==
    [buffer |-> [i \in 0..(capacity * (HeaderSize + max_packet_size) - 1) |-> Junk],
     buffer_size |-> capacity * (HeaderSize + max_packet_size),
     capacity |-> capacity, max_packet_size |-> max_packet_size,
     write_pos |-> 0, read_pos |-> 0, count |-> 0, data_sem |-> 0]

\* opus_packet_header_t header = { .size = (uint16_t)len }, as stored by memcpy
HeaderBytes(len) == <<(len % 65536) % 256, (len % 65536) \div 256>>

\* memcpy(buffer->buffer + pos, bytes, Len(bytes))
MemPut(mem, pos, bytes) ==
    [i \in DOMAIN mem |->
        IF i >= pos /\ i < pos + Len(bytes) THEN bytes[i - pos + 1] ELSE mem[i]]

\* memcpy(out, buffer->buffer + pos, n)
MemGet(mem, pos, n) == [i \in 1..n |-> mem[pos + i - 1]]

\* the write position the packet goes to, with the wrap test on the payload only
OpusWrapWriteNoHeader(b, len) ==
    IF b.write_pos + len > b.buffer_size THEN 0 ELSE b.write_pos

\* the write position the packet goes to: if (write_pos + packet_total_size >
\* buffer_size) write_pos = 0
OpusWrapWrite(b, len) ==
    IF b.write_pos + HeaderSize + len > b.buffer_size THEN 0 ELSE b.write_pos

\* opus_buffer_write once the mutex is held and count < capacity
OpusStore(b, data) ==
    LET wp == OpusWrapWrite(b, Len(data))
        m1 == MemPut(b.buffer, wp, HeaderBytes(Len(data)))
        m2 == MemPut(m1, wp + HeaderSize, data)
    IN  [b EXCEPT !.buffer = m2,
                  !.write_pos = wp + HeaderSize + Len(data),
                  !.count = b.count + 1,
                  !.data_sem = 1]

\* the return value of opus_buffer_write
OpusWriteResult(b, data) ==
    IF Len(data) = 0 THEN "ESP_ERR_INVALID_ARG"
    ELSE IF Len(data) > b.max_packet_size THEN "ESP_ERR_INVALID_SIZE"
    ELSE IF b.count >= b.capacity THEN "ESP_ERR_NO_MEM"
    ELSE "ESP_OK"

\* the position the header is read from: if (read_pos + header_size >
\* buffer_size) read_pos = 0
OpusHeaderPos(b) ==
    IF b.read_pos + HeaderSize > b.buffer_size THEN 0 ELSE b.read_pos

\* the values header.size can have after memcpy(&header, buffer + read_pos)
OpusHeaderSizes(b) ==
    LET p  == OpusHeaderPos(b)
        lo == IF b.buffer[p] = Junk THEN JunkByte ELSE {b.buffer[p]}
        hi == IF b.buffer[p + 1] = Junk THEN JunkByte ELSE {b.buffer[p + 1]}
    IN  {l + 256 * h : l \in lo, h \in hi}

\* the position the payload is read from: if (read_pos + header.size >
\* buffer_size) read_pos = 0
OpusDataPos(b, size) ==
    LET p == OpusHeaderPos(b) + HeaderSize
    IN  IF p + size > b.buffer_size THEN 0 ELSE p

(***************************************************************************)
(* The calls of the ring buffer API, step by step.  A call's critical      *)
(* section (between xSemaphoreTake(rb->mutex) and xSemaphoreGive) is one   *)
(* step; taking the mutex, waiting on data_sem and giving data_sem are     *)
(* steps of their own, so the other task can run in between and a bounded  *)
(* wait can expire.                                                        *)
(***************************************************************************)
NoOp == [op |-> "none", data |-> <<>>, len |-> 0, pre |-> <<>>, out |-> <<>>,
         ret |-> 0, pop |-> "none", pdata |-> <<>>]

\* simple_ring_buffer_write, argument check: len == 0 is rejected
WriteEnter(data) ==
    /\ wcall.pc = "idle"
    /\ wcall' = IF Len(data) = 0
                THEN [pc |-> "idle", data |-> data, ret |-> "ESP_ERR_INVALID_ARG"]
                ELSE [pc |-> "take_mutex", data |-> data, ret |-> "none"]

\* xSemaphoreTake(rb->mutex, 100 ms) succeeds
WriteTakeMutex ==
    /\ wcall.pc = "take_mutex"
    /\ mutex = "free"
    /\ mutex' = "W"
    /\ wcall' = [wcall EXCEPT !.pc = "loop"]
    /\ UNCHANGED <<rb, data_sem, rcall, wcount, rlog, peak, last, opusVars, frameVars, dispVars, lifeVars,
                   apiVars>>

\* the result of xSemaphoreTake(rb->mutex) ignored: the call reports success
WriteMutexTimeoutIgnored ==
    /\ wcall.pc = "take_mutex"
    /\ mutex # "free"
    /\ wcall' = [wcall EXCEPT !.pc = "idle", !.ret = "ESP_OK"]
    /\ UNCHANGED <<rb, mutex, data_sem, rcall, wcount, rlog, peak, last, opusVars, frameVars, dispVars, lifeVars,
                   apiVars>>

\* xSemaphoreTake(rb->mutex, 100 ms) expires while the reader holds the mutex
WriteMutexTimeout ==
    /\ wcall.pc = "take_mutex"
    /\ mutex # "free"
    /\ wcall' = [wcall EXCEPT !.pc = "idle", !.ret = "ESP_ERR_TIMEOUT"]
    /\ UNCHANGED <<rb, mutex, data_sem, rcall, wcount, rlog, peak, last, opusVars, frameVars, dispVars, lifeVars,
                   apiVars>>

\* the write loop and xSemaphoreGive(rb->mutex)
WriteCritical ==
    /\ wcall.pc = "loop"
    /\ rb' = RbWriteLoop(rb, wcall.data)
    /\ mutex' = "free"
    /\ wcall' = [wcall EXCEPT !.pc = "give_sem"]
    /\ wcount' = wcount + Len(wcall.data)
    /\ peak' = Max(peak, Len(Unread(rb)) + Len(wcall.data))
    /\ last' = [op |-> "write", data |-> wcall.data, len |-> Len(wcall.data),
                pre |-> Unread(rb), out |-> <<>>, ret |-> 0,
                pop |-> last.op, pdata |-> last.data]
    /\ UNCHANGED <<data_sem, rcall, rlog, opusVars, frameVars, dispVars, lifeVars,
                   apiVars>>

\* a simple_ring_buffer_write that returns without xSemaphoreGive(data_sem)
WriteNoGiveSem ==
    /\ wcall.pc = "give_sem"
    /\ wcall' = [wcall EXCEPT !.pc = "idle", !.ret = "ESP_OK"]
    /\ UNCHANGED <<rb, mutex, data_sem, rcall, wcount, rlog, peak, last,
                   opusVars, frameVars, dispVars, lifeVars, apiVars>>

\* xSemaphoreGive(rb->data_sem); return ESP_OK
WriteGiveSem ==
    /\ wcall.pc = "give_sem"
    /\ data_sem' = 1
    /\ wcall' = [wcall EXCEPT !.pc = "idle", !.ret = "ESP_OK"]
    /\ UNCHANGED <<rb, mutex, rcall, wcount, rlog, peak, last, opusVars, frameVars, dispVars, lifeVars,
                   apiVars>>

\* simple_ring_buffer_read, argument check: len == 0 returns 0
ReadEnter(len, timeout_ms) ==
    /\ rcall.pc = "idle"
    /\ rcall' = IF len = 0
                THEN [pc |-> "idle", op |-> "read", len |-> len,
                      timeout_ms |-> timeout_ms, ret |-> 0, out |-> <<>>]
                ELSE [pc |-> "check", op |-> "read", len |-> len,
                      timeout_ms |-> timeout_ms, ret |-> 0, out |-> <<>>]

\* simple_ring_buffer_available: goes straight to the mutex
AvailableEnter ==
    /\ rcall.pc = "idle"
    /\ rcall' = [pc |-> "take_mutex", op |-> "available", len |-> 0,
                 timeout_ms |-> 0, ret |-> 0, out |-> <<>>]

\* What `rb->read_pos == rb->write_pos` can evaluate to.  The reader loads
\* both fields without the mutex: while the writer is inside its loop the
\* two loads see any of the values the fields take during the loop.
SeesEmpty ==
    IF wcall.pc = "loop"
    THEN LET t == RbWritePosTrace(rb, wcall.data, 1) IN t.rp \cap t.wp # {}
    ELSE rb.read_pos = rb.write_pos

SeesData ==
    IF wcall.pc = "loop"
    THEN LET t == RbWritePosTrace(rb, wcall.data, 1)
         IN  \E a \in t.rp, b \in t.wp : a # b
    ELSE rb.read_pos # rb.write_pos

\* if (rb->read_pos == rb->write_pos && timeout_ms > 0): wait on data_sem
ReadCheckWait ==
    /\ rcall.pc = "check"
    /\ SeesEmpty /\ rcall.timeout_ms > 0
    /\ rcall' = [rcall EXCEPT !.pc = "take_sem"]
    /\ UNCHANGED <<rb, mutex, data_sem, wcall, wcount, rlog, peak, last, opusVars, frameVars, dispVars, lifeVars,
                   apiVars>>

\* otherwise: go on to the mutex
ReadCheckGo ==
    /\ rcall.pc = "check"
    /\ SeesData \/ (SeesEmpty /\ rcall.timeout_ms = 0)
    /\ rcall' = [rcall EXCEPT !.pc = "take_mutex"]
    /\ UNCHANGED <<rb, mutex, data_sem, wcall, wcount, rlog, peak, last, opusVars, frameVars, dispVars, lifeVars,
                   apiVars>>

\* xSemaphoreTake(rb->data_sem, timeout) succeeds
ReadTakeSem ==
    /\ rcall.pc = "take_sem"
    /\ data_sem = 1
    /\ data_sem' = 0
    /\ rcall' = [rcall EXCEPT !.pc = "take_mutex"]
    /\ UNCHANGED <<rb, mutex, wcall, wcount, rlog, peak, last, opusVars, frameVars, dispVars, lifeVars,
                   apiVars>>

\* xSemaphoreTake(rb->data_sem, timeout) expires: return 0
ReadSemTimeout ==
    /\ rcall.pc = "take_sem"
    /\ rcall.timeout_ms # PortMaxDelay
    /\ data_sem = 0
    /\ rcall' = [rcall EXCEPT !.pc = "idle", !.ret = 0, !.out = <<>>]
    /\ UNCHANGED <<rb, mutex, data_sem, wcall, wcount, rlog, peak, last, opusVars, frameVars, dispVars, lifeVars,
                   apiVars>>

\* xSemaphoreTake(rb->mutex, 50 ms / 10 ms) succeeds
ReadTakeMutex ==
    /\ rcall.pc = "take_mutex"
    /\ mutex = "free"
    /\ mutex' = "R"
    /\ rcall' = [rcall EXCEPT !.pc = "locked"]
    /\ UNCHANGED <<rb, data_sem, wcall, wcount, rlog, peak, last, opusVars, frameVars, dispVars, lifeVars,
                   apiVars>>

\* xSemaphoreTake(rb->mutex, 50 ms / 10 ms) expires: return 0
ReadMutexTimeout ==
    /\ rcall.pc = "take_mutex"
    /\ mutex # "free"
    /\ rcall' = [rcall EXCEPT !.pc = "idle", !.ret = 0, !.out = <<>>]
    /\ UNCHANGED <<rb, mutex, data_sem, wcall, wcount, rlog, peak, last, opusVars, frameVars, dispVars, lifeVars,
                   apiVars>>

\* simple_ring_buffer_read: compute available, copy, xSemaphoreGive(rb->mutex)
ReadCritical ==
    /\ rcall.pc = "locked" /\ rcall.op = "read"
    /\ LET res == RbReadLoop(rb, rcall.len)
       IN  /\ rb' = res.rb
           /\ rcall' = [rcall EXCEPT !.pc = "idle", !.ret = Len(res.out),
                                     !.out = res.out]
           /\ rlog' = rlog \o res.out
           /\ last' = [op |-> "read", data |-> <<>>, len |-> rcall.len,
                       pre |-> Unread(rb), out |-> res.out, ret |-> Len(res.out),
                       pop |-> last.op, pdata |-> last.data]
    /\ mutex' = "free"
    /\ UNCHANGED <<data_sem, wcall, wcount, peak, opusVars, frameVars, dispVars, lifeVars,
                   apiVars>>

\* simple_ring_buffer_available: compute available, xSemaphoreGive(rb->mutex)
AvailableCritical ==
    /\ rcall.pc = "locked" /\ rcall.op = "available"
    /\ rcall' = [rcall EXCEPT !.pc = "idle", !.ret = RbAvailable(rb)]
    /\ last' = [op |-> "available", data |-> <<>>, len |-> 0,
                pre |-> Unread(rb), out |-> <<>>, ret |-> RbAvailable(rb),
                pop |-> last.op, pdata |-> last.data]
    /\ mutex' = "free"
    /\ UNCHANGED <<rb, data_sem, wcall, wcount, rlog, peak, opusVars, frameVars, dispVars, lifeVars,
                   apiVars>>

(***************************************************************************)
(* Spec: a writer task and a reader task call the API with any arguments.  *)
(* The code never looks at the value of a byte it stores, so the k-th byte *)
(* written carries the value k: a read then shows which bytes it returned. *)
(***************************************************************************)
\* longest single write: more than the capacity
MaxWriteLen == RbSize + 2

WriterCalls ==
    \E n \in 0..MaxWriteLen :
        /\ wcount + n <= MaxWritten
        /\ WriteEnter(Labels(wcount + 1, n))
        /\ UNCHANGED <<rb, mutex, data_sem, rcall, wcount, rlog, peak, last, opusVars, frameVars, dispVars, lifeVars,
                       apiVars>>

ReaderCallsRead ==
    \E len \in 0..(RbSize + 1), timeout_ms \in {0, 1} :
        /\ ReadEnter(len, timeout_ms)
        /\ UNCHANGED <<rb, mutex, data_sem, wcall, wcount, rlog, peak, last, opusVars, frameVars, dispVars, lifeVars,
                       apiVars>>

ReaderCallsAvailable ==
    /\ AvailableEnter
    /\ UNCHANGED <<rb, mutex, data_sem, wcall, wcount, rlog, peak, last, opusVars, frameVars, dispVars, lifeVars,
                   apiVars>>

RingCreated(size) ==
    /\ rb = RbCreate(size)
    /\ mutex = "free"
    /\ data_sem = 0
    /\ wcall = [pc |-> "idle", data |-> <<>>, ret |-> "none"]
    /\ rcall = [pc |-> "idle", op |-> "read", len |-> 0, timeout_ms |-> 0,
                ret |-> 0, out |-> <<>>]
    /\ wcount = 0
    /\ rlog = <<>>
    /\ peak = 0
    /\ last = NoOp

RingInit == RingCreated(RbSize)

RingApi ==
    \/ WriteTakeMutex \/ WriteMutexTimeout \/ WriteCritical \/ WriteGiveSem
    \/ ReadCheckWait \/ ReadCheckGo \/ ReadTakeSem \/ ReadSemTimeout
    \/ ReadTakeMutex \/ ReadMutexTimeout \/ ReadCritical \/ AvailableCritical

(***************************************************************************)
(* SpecOpus: calls of the packet buffer API, one at a time (each call runs *)
(* under buffer->mutex).  The k-th accepted packet is filled with the byte *)
(* k; its length is any of 0 .. max_packet_size + 1.                       *)
(***************************************************************************)
NoOpusOp == [op |-> "none", ret |-> "none", data |-> <<>>, out |-> <<>>,
             max_len |-> 0, count0 |-> 0, kept |-> TRUE]

\* the history of the calls since the buffer was last empty: the packets
\* accepted since (w), whether a write was then refused (rej), the reads
\* after that (r); run is FALSE when the calls came in another order
NoRun(h) == [h EXCEPT !.w = <<>>, !.rej = FALSE, !.r = 0, !.run = FALSE]

SinceEmpty(h, op, ret, data, count0, max_len) ==
    IF op = "write" /\ ret = "ESP_OK" /\ count0 = 0
    THEN [h EXCEPT !.w = <<data>>, !.rej = FALSE, !.r = 0, !.run = TRUE]
    ELSE IF ~h.run THEN h
    ELSE IF op = "write" /\ ret = "ESP_OK"
    THEN IF ~h.rej THEN [h EXCEPT !.w = Append(h.w, data)] ELSE NoRun(h)
    ELSE IF op = "write" /\ ret = "ESP_ERR_NO_MEM"
    THEN IF h.r = 0 THEN [h EXCEPT !.rej = TRUE] ELSE NoRun(h)
    ELSE IF op = "write" THEN NoRun(h)
    ELSE IF h.rej /\ max_len >= OpusMaxPacket /\ h.r < Len(h.w)
    THEN [h EXCEPT !.r = h.r + 1]
    ELSE NoRun(h)

\* opus_buffer_write(buffer, data, len)
OpusWrite(data) ==
    LET ret == OpusWriteResult(ob, data)
    IN  /\ ob' = IF ret = "ESP_OK" THEN OpusStore(ob, data) ELSE ob
        /\ olast' = [op |-> "write", ret |-> ret, data |-> data, out |-> <<>>,
                     max_len |-> 0, count0 |-> ob.count, kept |-> (ob' = ob)]
        /\ ohist' = LET h == SinceEmpty(ohist, "write", ret, data, ob.count, 0)
                    IN  IF ret = "ESP_OK"
                        THEN [h EXCEPT !.written = Append(ohist.written, data)]
                        ELSE h

\* opus_buffer_read(buffer, out, max_len, &actual_len, timeout_ms): the
\* buffer is empty, the call waits on data_sem if timeout_ms > 0
OpusReadEmpty(max_len, timeout_ms) ==
    /\ ob.count = 0
    /\ LET waits == timeout_ms > 0
           ret   == IF waits /\ ob.data_sem = 0 THEN "ESP_ERR_TIMEOUT"
                    ELSE "ESP_ERR_NOT_FOUND"
       IN  /\ ob' = IF waits THEN [ob EXCEPT !.data_sem = 0] ELSE ob
           /\ olast' = [op |-> "read", ret |-> ret, data |-> <<>>, out |-> <<>>,
                        max_len |-> max_len, count0 |-> ob.count, kept |-> TRUE]
           /\ ohist' = [SinceEmpty(ohist, "read", ret, <<>>, ob.count, max_len)
                           EXCEPT !.small = ohist.small \/ max_len < OpusMaxPacket]

\* opus_buffer_read with count > 0: header, size check, payload
OpusReadPacket(max_len) ==
    /\ ob.count > 0
    /\ \E size \in OpusHeaderSizes(ob) :
        LET hp  == OpusHeaderPos(ob)
            dp  == OpusDataPos(ob, size)
            ok  == size <= max_len
            out == IF ok THEN MemGet(ob.buffer, dp, size) ELSE <<>>
            ret == IF ok THEN "ESP_OK" ELSE "ESP_ERR_INVALID_SIZE"
        IN  /\ ob' = IF ok
                     THEN [ob EXCEPT !.read_pos = dp + size, !.count = ob.count - 1]
                     ELSE [ob EXCEPT !.read_pos = hp + HeaderSize]
            /\ olast' = [op |-> "read", ret |-> ret, data |-> <<>>, out |-> out,
                         max_len |-> max_len, count0 |-> ob.count, kept |-> FALSE]
            /\ ohist' = [SinceEmpty(ohist, "read", ret, <<>>, ob.count, max_len)
                            EXCEPT !.small = ohist.small \/ max_len < OpusMaxPacket,
                                   !.nread = IF ok THEN ohist.nread + 1
                                             ELSE ohist.nread,
                                   !.lost = IF ok \/ @ >= MaxPackets THEN @
                                            ELSE @ + 1]

\* audio_downlink_t after audio_downlink_create (memset 0); history of the
\* latest audio_downlink_process call: its return value (ret) and
\* buffer_full_count before it (full0); and the packets opus_decode_task has
\* decoded and handed to config.callback (played)
DownlinkCreated ==
    [total_packets |-> 0, error_count |-> 0, buffer_full_count |-> 0,
     ret |-> "none", full0 |-> 0, played |-> <<>>]

OpusIdle ==
    /\ downlink = DownlinkCreated
    /\ ob = OpusCreate(OpusCapacity, OpusMaxPacket)
    /\ olast = NoOpusOp
    /\ ohist = [written |-> <<>>, nread |-> 0, lost |-> 0, small |-> FALSE,
                w |-> <<>>, rej |-> FALSE, r |-> 0, run |-> FALSE]

OpusWrites ==
    \E len \in 0..(OpusMaxPacket + 1) :
        /\ Len(ohist.written) < MaxPackets
        /\ OpusWrite([i \in 1..len |-> Len(ohist.written) + 1])
        /\ UNCHANGED <<ringVars, frameVars, downlink, dispVars, lifeVars,
                       apiVars>>

OpusReadsEmpty ==
    \E max_len \in {1, OpusMaxPacket}, timeout_ms \in {0, 1} :
        /\ OpusReadEmpty(max_len, timeout_ms)
        /\ UNCHANGED <<ringVars, frameVars, downlink, dispVars, lifeVars,
                       apiVars>>

OpusReads ==
    \E max_len \in {1, OpusMaxPacket} :
        /\ OpusReadPacket(max_len)
        /\ UNCHANGED <<ringVars, frameVars, downlink, dispVars, lifeVars,
                       apiVars>>

(***************************************************************************)
(* SpecDownlink: audio_downlink.cpp.  audio_downlink_process is called with *)
(* any base64 string (given here by what it decodes to: nothing, a packet   *)
(* of 1 .. max_packet_size bytes, a longer one); opus_decode_task reads     *)
(* with a destination of max_packet_size bytes (512 in the code for both).  *)
(***************************************************************************)
\* audio_downlink_process(handle, base64_audio); data is what
\* base64_decode_audio returns (empty: it failed)
DownlinkProcess(data) ==
    IF Len(data) = 0
    THEN /\ downlink' = [downlink EXCEPT !.total_packets = @ + 1,
                                         !.error_count = @ + 1,
                                         !.ret = "ESP_FAIL",
                                         !.full0 = downlink.buffer_full_count]
         /\ olast' = [NoOpusOp EXCEPT !.op = "none_written"]
         /\ ohist' = NoRun(ohist)
         /\ UNCHANGED ob
    ELSE /\ OpusWrite(data)
         /\ downlink' = [downlink EXCEPT
                !.total_packets = @ + 1,
                !.buffer_full_count =
                    IF OpusWriteResult(ob, data) = "ESP_OK" THEN @ ELSE @ + 1,
                !.ret = IF OpusWriteResult(ob, data) = "ESP_OK"
                        THEN "ESP_OK" ELSE "ESP_FAIL",
                !.full0 = downlink.buffer_full_count]

\* the server's audio deltas reach audio_downlink_process one by one
DownlinkCalls ==
    \E len \in 0..(OpusMaxPacket + 1) :
        /\ downlink.total_packets < MaxProcessCalls
        /\ Len(ohist.written) < MaxPackets
        /\ DownlinkProcess([i \in 1..len |-> Len(ohist.written) + 1])
        /\ UNCHANGED <<ringVars, frameVars, dispVars, lifeVars, apiVars>>

\* opus_decode_task, one iteration with a packet in the buffer:
\* opus_buffer_read, then Decode (it succeeds or not), then the callback or
\* error_count++
DecodeTaskPacket ==
    \E decoded \in BOOLEAN :
        /\ OpusReadPacket(OpusMaxPacket)
        /\ downlink' = IF olast'.ret = "ESP_OK" /\ Len(olast'.out) > 0
                       THEN IF decoded
                            THEN [downlink EXCEPT
                                     !.played = Append(@, olast'.out)]
                            ELSE [downlink EXCEPT !.error_count = @ + 1]
                       ELSE downlink
        /\ UNCHANGED <<ringVars, frameVars, dispVars, lifeVars, apiVars>>

\* opus_decode_task, one iteration with the buffer empty and data_sem given:
\* opus_buffer_read returns ESP_ERR_NOT_FOUND
DecodeTaskEmpty ==
    /\ ob.data_sem = 1
    /\ OpusReadEmpty(OpusMaxPacket, 1)
    /\ UNCHANGED <<ringVars, frameVars, downlink, dispVars, lifeVars,
                   apiVars>>

(***************************************************************************)
(* coze_websocket.cpp, coze_chat.cpp: reassembly, framing, parser task.    *)
(* Sizes are those of the code with a byte of ByteBase values:             *)
(*   65535 = 256^2 - 1, 32 * 1024 = 256^2 / 2, 256 * 1024 = 4 * 256^2.     *)
(* A byte in the framing buffer is [v, m, i]: its value v, and as history  *)
(* the message m it was written for and its index i in m's frame (1, 2:    *)
(* the length prefix; 3 ..: the payload).                                  *)
(***************************************************************************)
\* largest value of a uint16_t; the limit of the OnData callback (length > 65535)
U16Max == ByteBase * ByteBase - 1
\* MAX_JSON_SIZE of json_parser_task (32 * 1024)
MAX_JSON_SIZE == (ByteBase * ByteBase) \div 2
\* simple_ring_buffer_create(256 * 1024)
WsRingSize == 4 * ByteBase * ByteBase
\* sizeof(uint16_t)
LenSize == 2

\* the bytes of (uint16_t)length as memory holds them (little-endian)
U16Bytes(n) == <<(n % (U16Max + 1)) % ByteBase, (n % (U16Max + 1)) \div ByteBase>>

\* the uint16_t msg_len after `got` bytes were copied into it (msg_len = 0 before)
U16Value(bytes) ==
    (IF Len(bytes) >= 1 THEN bytes[1].v ELSE 0)
    + ByteBase * (IF Len(bytes) >= 2 THEN bytes[2].v ELSE 0)

Tagged(values, m, first) ==
    [j \in 1..Len(values) |-> [v |-> values[j], m |-> m, i |-> first + j - 1]]

Values(bytes) == [j \in 1..Len(bytes) |-> bytes[j].v]

\* the messages the server sends: text of a few lengths around the limits of
\* the callback and of the parser, filled with one byte value; one binary
Messages ==
    {[len |-> l, fill |-> f, binary |-> FALSE] :
        l \in {1, 2, MAX_JSON_SIZE, MAX_JSON_SIZE + 1, U16Max, U16Max + 1},
        f \in 1..(ByteBase - 1)}
    \cup {[len |-> 1, fill |-> 1, binary |-> TRUE]}

\* sizes of the next fragment of a message with `left` bytes to deliver
FragmentSizes(left) == {1, left} \cup {n \in {ByteBase} : n < left}

NoMsg == [len |-> 0, fill |-> 0, binary |-> FALSE]

\* OnData callback, up to the first ring buffer call; data is the message
\* (fragment_buffer_.c_str()), binary the frame type.  Returns at once for
\* binary or empty data and for length > 65535.
OnDataBegin(data, binary) ==
    IF binary \/ Len(data) = 0
    THEN /\ cb' = [cb EXCEPT !.pc = "idle"]
         /\ fragment_buffer_' = <<>>
         /\ UNCHANGED <<wcall, accepted, rejected>>
    ELSE IF Len(data) > U16Max
    THEN /\ cb' = [cb EXCEPT !.pc = "idle"]
         /\ fragment_buffer_' = <<>>
         /\ rejected' = rejected + 1
         /\ UNCHANGED <<wcall, accepted>>
    ELSE /\ WriteEnter(Tagged(U16Bytes(Len(data)), Len(accepted) + 1, 1))
         /\ cb' = [cb EXCEPT !.pc = "len_write"]
         /\ fragment_buffer_' = data
         /\ accepted' = Append(accepted, data)
         /\ UNCHANGED rejected

\* CozeWebSocket::websocket_event_handler, WEBSOCKET_EVENT_DATA with
\* data_len > 0: chunk is data_ptr[0 .. data_len)
\* what the handler does with fragment_buffer_ (buf): whether it invokes
\* on_data_, with which data, and the buffer it leaves when it returns
ReassembleEager(buf, chunk, payload_offset, payload_len) ==
    LET cleared == IF payload_offset = 0 THEN <<>> ELSE buf
        grown   == cleared \o chunk
    IN  [fire |-> TRUE, data |-> grown, buffer |-> <<>>]

Reassemble(buf, chunk, payload_offset, payload_len) ==
    LET cleared == IF payload_offset = 0 THEN <<>> ELSE buf
        grown   == cleared \o chunk
    IN  IF Len(grown) >= payload_len
        THEN [fire |-> TRUE, data |-> grown, buffer |-> <<>>]
        ELSE [fire |-> FALSE, data |-> <<>>, buffer |-> grown]

OnWebsocketData(chunk, payload_offset, payload_len, binary) ==
    LET r == Reassemble(fragment_buffer_, chunk, payload_offset, payload_len)
    IN  IF r.fire
        THEN OnDataBegin(r.data, binary)
        ELSE /\ fragment_buffer_' = r.buffer
             /\ UNCHANGED <<wcall, cb, accepted, rejected>>

\* the connection delivers the first fragment of the next message
WsFirstFragment ==
    \E msg \in Messages : \E n \in FragmentSizes(msg.len) :
        /\ cb.pc = "idle" /\ wcall.pc = "idle"
        /\ net.msg = NoMsg
        /\ net.count < MaxMsgs
        /\ OnWebsocketData([j \in 1..n |-> msg.fill], 0, msg.len, msg.binary)
        /\ net' = IF n = msg.len
                  THEN [net EXCEPT !.msg = NoMsg, !.offset = 0,
                                   !.count = net.count + 1]
                  ELSE [net EXCEPT !.msg = msg, !.offset = n,
                                   !.count = net.count + 1]
        /\ UNCHANGED <<rb, mutex, data_sem, rcall, wcount, rlog, peak, last,
                       parser, dispatched, opusVars, dispVars, lifeVars,
                       apiVars>>

\* the connection delivers a further fragment of the message
WsNextFragment ==
    \E n \in FragmentSizes(net.msg.len - net.offset) :
        /\ cb.pc = "idle" /\ wcall.pc = "idle"
        /\ net.msg # NoMsg
        /\ OnWebsocketData([j \in 1..n |-> net.msg.fill], net.offset,
                           net.msg.len, net.msg.binary)
        /\ net' = IF net.offset + n = net.msg.len
                  THEN [net EXCEPT !.msg = NoMsg, !.offset = 0]
                  ELSE [net EXCEPT !.offset = net.offset + n]
        /\ UNCHANGED <<rb, mutex, data_sem, rcall, wcount, rlog, peak, last,
                       parser, dispatched, opusVars, dispVars, lifeVars,
                       apiVars>>

\* OnData: the write of the length returned ESP_OK; write the JSON data
CbLenWritten ==
    /\ cb.pc = "len_write" /\ wcall.pc = "idle"
    /\ wcall.ret = "ESP_OK"
    /\ WriteEnter(Tagged(fragment_buffer_, Len(accepted), LenSize + 1))
    /\ cb' = [cb EXCEPT !.pc = "data_write"]
    /\ UNCHANGED <<rb, mutex, data_sem, rcall, wcount, rlog, peak, last,
                   net, fragment_buffer_, parser, accepted, dispatched, rejected,
                   opusVars, dispVars, lifeVars, apiVars>>

\* OnData: the write of the length failed; return, nothing queued
CbLenWriteFailed ==
    /\ cb.pc = "len_write" /\ wcall.pc = "idle"
    /\ wcall.ret # "ESP_OK"
    /\ cb' = [cb EXCEPT !.pc = "idle"]
    /\ fragment_buffer_' = <<>>
    /\ UNCHANGED <<ringVars, net, parser, accepted, dispatched, rejected, opusVars, dispVars, lifeVars,
                   apiVars>>

\* OnData: the write of the JSON data returned ESP_OK; the callback returns and
\* the handler clears fragment_buffer_
CbDataWritten ==
    /\ cb.pc = "data_write" /\ wcall.pc = "idle"
    /\ wcall.ret = "ESP_OK"
    /\ cb' = [cb EXCEPT !.pc = "idle"]
    /\ fragment_buffer_' = <<>>
    /\ UNCHANGED <<ringVars, net, parser, accepted, dispatched, rejected, opusVars, dispVars, lifeVars,
                   apiVars>>

\* OnData: the write of the JSON data failed; simple_ring_buffer_clear is called
CbDataWriteFailed ==
    /\ cb.pc = "data_write" /\ wcall.pc = "idle"
    /\ wcall.ret # "ESP_OK"
    /\ cb' = [cb EXCEPT !.pc = "clear"]
    /\ UNCHANGED <<ringVars, net, fragment_buffer_, parser, accepted, dispatched,
                   rejected, opusVars, dispVars, lifeVars, apiVars>>

\* simple_ring_buffer_clear with the mutex obtained: read_pos = write_pos
ClearCritical ==
    /\ cb.pc = "clear"
    /\ mutex = "free"
    /\ rb' = [rb EXCEPT !.read_pos = rb.write_pos]
    /\ cb' = [pc |-> "idle", cleared |-> Len(accepted)]
    /\ fragment_buffer_' = <<>>
    /\ UNCHANGED <<mutex, data_sem, wcall, rcall, wcount, rlog, peak, last,
                   net, parser, accepted, dispatched, rejected, opusVars, dispVars, lifeVars,
                   apiVars>>

\* simple_ring_buffer_clear, the 100 ms wait for the mutex expires: no effect
ClearMutexTimeout ==
    /\ cb.pc = "clear"
    /\ mutex # "free"
    /\ cb' = [cb EXCEPT !.pc = "idle"]
    /\ fragment_buffer_' = <<>>
    /\ UNCHANGED <<ringVars, net, parser, accepted, dispatched, rejected, opusVars, dispVars, lifeVars,
                   apiVars>>

\* json_parser_task, step 1: simple_ring_buffer_read(&msg_len, 2, portMAX_DELAY)
ParserReadLen ==
    /\ parser.pc = "top"
    /\ ReadEnter(LenSize, 1)
    /\ parser' = [parser EXCEPT !.pc = "len_read"]
    /\ UNCHANGED <<rb, mutex, data_sem, wcall, wcount, rlog, peak, last,
                   net, fragment_buffer_, cb, accepted, dispatched, rejected,
                   opusVars, dispVars, lifeVars, apiVars>>

\* json_parser_task: got != 2, or msg_len == 0, or msg_len > MAX_JSON_SIZE:
\* continue
ParserLenRefused ==
    /\ parser.pc = "len_read" /\ rcall.pc = "idle"
    /\ \/ rcall.ret # LenSize
       \/ U16Value(rcall.out) = 0
       \/ U16Value(rcall.out) > MAX_JSON_SIZE
    /\ parser' = [pc |-> "top", msg_len |-> U16Value(rcall.out),
                  len_bytes |-> IF rcall.ret = LenSize THEN rcall.out ELSE <<>>]
    /\ UNCHANGED <<ringVars, net, fragment_buffer_, cb, accepted, dispatched,
                   rejected, opusVars, dispVars, lifeVars, apiVars>>

\* json_parser_task, step 2: simple_ring_buffer_read(json_buffer, msg_len,
\* portMAX_DELAY)
ParserReadData ==
    /\ parser.pc = "len_read" /\ rcall.pc = "idle"
    /\ rcall.ret = LenSize
    /\ U16Value(rcall.out) # 0
    /\ U16Value(rcall.out) <= MAX_JSON_SIZE
    /\ parser' = [pc |-> "data_read", msg_len |-> U16Value(rcall.out),
                  len_bytes |-> rcall.out]
    /\ ReadEnter(U16Value(rcall.out), 1)
    /\ UNCHANGED <<rb, mutex, data_sem, wcall, wcount, rlog, peak, last,
                   net, fragment_buffer_, cb, accepted, dispatched, rejected,
                   opusVars, dispVars, lifeVars, apiVars>>

\* json_parser_task: got != msg_len: continue
ParserDataShort ==
    /\ parser.pc = "data_read" /\ rcall.pc = "idle"
    /\ rcall.ret # parser.msg_len
    /\ parser' = [parser EXCEPT !.pc = "top"]
    /\ UNCHANGED <<ringVars, net, fragment_buffer_, cb, accepted, dispatched,
                   rejected, opusVars, dispVars, lifeVars, apiVars>>

\* json_parser_task, step 3: handle_coze_message(handle, message)
ParserDispatch ==
    /\ parser.pc = "data_read" /\ rcall.pc = "idle"
    /\ rcall.ret = parser.msg_len
    /\ dispatched' = Append(dispatched, rcall.out)
    /\ parser' = [parser EXCEPT !.pc = "top"]
    /\ UNCHANGED <<ringVars, net, fragment_buffer_, cb, accepted, rejected,
                   opusVars, dispVars, lifeVars, apiVars>>

(***************************************************************************)
(* SpecReassembly: the WEBSOCKET_EVENT_DATA handler alone, with an on_data_ *)
(* that records its invocations.  The handler never looks at the bytes it   *)
(* accumulates, so the k-th byte of a message carries the value k.  The     *)
(* connection can drop in the middle of a message: fragment_buffer_ then    *)
(* keeps what was accumulated.                                              *)
(***************************************************************************)
\* declared payload_len of the messages
ReasmLengths == {m.len : m \in Messages}

ReasmFirstFragment ==
    \E len \in ReasmLengths : \E n \in FragmentSizes(len) :
        /\ net.msg = NoMsg
        /\ net.count < MaxMsgs
        /\ LET r == Reassemble(fragment_buffer_, Labels(1, n), 0, len)
           IN  /\ fragment_buffer_' = r.buffer
               /\ net' = [msg   |-> IF n = len THEN NoMsg
                                    ELSE [len |-> len, fill |-> 0, binary |-> FALSE],
                          offset |-> IF n = len THEN 0 ELSE n,
                          count  |-> net.count + 1,
                          nfrag  |-> 1,
                          stale  |-> (fragment_buffer_ # <<>>),
                          sent   |-> Labels(1, n),
                          done   |-> (n = len),
                          calls  |-> IF r.fire THEN 1 ELSE 0,
                          arg    |-> r.data]
        /\ UNCHANGED <<ringVars, opusVars, dispVars, lifeVars, cb, parser, accepted,
                       dispatched, rejected, apiVars>>

ReasmNextFragment ==
    \E n \in FragmentSizes(net.msg.len - net.offset) :
        /\ net.msg # NoMsg
        /\ LET r == Reassemble(fragment_buffer_, Labels(net.offset + 1, n),
                               net.offset, net.msg.len)
               last_one == (net.offset + n = net.msg.len)
           IN  /\ fragment_buffer_' = r.buffer
               /\ net' = [net EXCEPT
                             !.msg    = IF last_one THEN NoMsg ELSE @,
                             !.offset = IF last_one THEN 0 ELSE @ + n,
                             !.nfrag  = @ + 1,
                             !.sent   = @ \o Labels(net.offset + 1, n),
                             !.done   = last_one,
                             !.calls  = IF r.fire THEN @ + 1 ELSE @,
                             !.arg    = IF r.fire THEN r.data ELSE @]
        /\ UNCHANGED <<ringVars, opusVars, dispVars, lifeVars, cb, parser, accepted,
                       dispatched, rejected, apiVars>>

\* WEBSOCKET_EVENT_DISCONNECTED in the middle of a message: the rest of the
\* message never arrives; nothing touches fragment_buffer_
ReasmDisconnect ==
    /\ net.msg # NoMsg
    /\ net' = [net EXCEPT !.msg = NoMsg, !.offset = 0]
    /\ UNCHANGED <<ringVars, opusVars, dispVars, lifeVars, fragment_buffer_,
                   cb, parser, accepted, dispatched, rejected, apiVars>>

(***************************************************************************)
(* SpecDispatch: handle_coze_message (coze_chat.cpp) called with any       *)
(* envelope.  An envelope is given by what cJSON finds in it: whether it   *)
(* parses, its event_type ("" when missing or not a string), whether it    *)
(* has data, data.content (content_len: the length base64_decode_audio     *)
(* gives, -1 without a string content) and data.text.                      *)
(***************************************************************************)
\* the event types of the envelopes sent in SpecDispatch: one for each kind of
\* branch of the dispatch table
EventTypes ==
    {"chat.created", "chat.updated", "conversation.audio.delta",
     "conversation.message.delta", "conversation.chat.failed",
     "conversation.audio.sentence_start", "error", "unknown.event",
     "conversation.message.completed", "conversation.audio.completed",
     "conversation.chat.completed"}

Envelope(ok, type, data, content_len, text) ==
    [json_ok |-> ok, event_type |-> type, data |-> data,
     content_len |-> content_len, text |-> text]

Envelopes ==
    {Envelope(FALSE, "", FALSE, -1, FALSE), Envelope(TRUE, "", FALSE, -1, FALSE)}
    \cup {Envelope(TRUE, t, FALSE, -1, FALSE) : t \in EventTypes}
    \cup {Envelope(TRUE, "conversation.audio.delta", TRUE, -1, FALSE)}
    \cup {Envelope(TRUE, "conversation.audio.delta", TRUE, n, FALSE) :
            n \in {0, 1, OpusMaxPacket + 1}}
    \cup {Envelope(TRUE, "error", TRUE, 1, FALSE)}
    \cup {Envelope(TRUE, "conversation.audio.sentence_start", TRUE, -1, TRUE)}

\* the events handle_coze_message passes to handle->event_callback
DispatchEventsErrorTwice(s, env) ==
    IF ~env.json_ok \/ env.event_type = "" \/ ~s.event_callback THEN <<>>
    ELSE IF env.event_type = "error"
    THEN <<"COZE_CHAT_EVENT_CHAT_ERROR", "COZE_CHAT_EVENT_CHAT_ERROR">>
    ELSE <<>>

DispatchEvents(s, env) ==
    IF ~env.json_ok \/ env.event_type = "" \/ ~s.event_callback THEN <<>>
    ELSE IF env.event_type \in {"chat.created", "conversation.chat.created"}
    THEN <<"COZE_CHAT_EVENT_CHAT_CREATE">>
    ELSE IF env.event_type = "chat.updated"
    THEN <<"COZE_CHAT_EVENT_CHAT_UPDATE">>
    ELSE IF env.event_type = "input_audio_buffer.speech_started"
    THEN <<"COZE_CHAT_EVENT_CHAT_SPEECH_STARTED">>
    ELSE IF env.event_type = "input_audio_buffer.speech_stopped"
    THEN <<"COZE_CHAT_EVENT_CHAT_SPEECH_STOPED">>
    ELSE IF env.event_type = "input_audio_buffer.completed"
    THEN <<"COZE_CHAT_EVENT_INPUT_AUDIO_BUFFER_COMPLETED">>
    ELSE IF env.event_type = "conversation.chat.completed"
    THEN <<"COZE_CHAT_EVENT_CHAT_COMPLETED">>
    ELSE IF env.event_type \in {"conversation.chat.failed", "error"}
    THEN <<"COZE_CHAT_EVENT_CHAT_ERROR">>
    ELSE IF /\ env.event_type = "conversation.audio.sentence_start"
            /\ env.data /\ s.enable_subtitle /\ env.text
    THEN <<"COZE_CHAT_EVENT_CHAT_SUBTITLE_EVENT">>
    ELSE <<>>

\* session_created set by every envelope that parses
DispatchSessionAnyEvent(s, env) ==
    IF env.json_ok /\ env.event_type # ""
    THEN [s EXCEPT !.session_created = TRUE]
    ELSE s

\* the session fields handle_coze_message assigns
DispatchSession(s, env) ==
    IF env.json_ok /\ env.event_type = "chat.created"
    THEN [s EXCEPT !.session_created = TRUE]
    ELSE s

\* whether handle_coze_message calls audio_downlink_process
DispatchAudio(s, env) ==
    /\ env.json_ok
    /\ env.event_type = "conversation.audio.delta"
    /\ env.data /\ env.content_len >= 0
    /\ s.audio_downlink

\* what has become of the cJSON tree of the envelope when handle_coze_message
\* returns: "none" (cJSON_Parse failed), "deleted" (cJSON_Delete(root)) or
\* "live" (returned without it)
DispatchRoot(env) ==
    IF ~env.json_ok THEN "none"
    ELSE IF env.event_type = "" THEN "deleted"
    ELSE IF /\ env.event_type = "conversation.audio.delta"
            /\ (~env.data \/ env.content_len < 0)
    THEN "live"
    ELSE "deleted"

\* a handle_coze_message that decodes the packet and plays it itself
HandleCozeMessageDecodes(env) ==
    /\ session' = DispatchSession(session, env)
    /\ hlast' = [event_type |-> IF env.json_ok THEN env.event_type ELSE "",
                 events |-> DispatchEvents(session, env),
                 audio |-> IF DispatchAudio(session, env) THEN 1 ELSE 0,
                 root |-> DispatchRoot(env),
                 tick |-> 1 - hlast.tick]
    /\ IF DispatchAudio(session, env)
       THEN /\ downlink.total_packets < MaxProcessCalls
            /\ Len(ohist.written) < MaxPackets
            /\ downlink' = [downlink EXCEPT
                   !.total_packets = @ + 1,
                   !.played = Append(@, [i \in 1..env.content_len |->
                                            Len(ohist.written) + 1])]
            /\ UNCHANGED <<ob, olast, ohist>>
       ELSE UNCHANGED opusVars

\* handle_coze_message(handle, message)
HandleCozeMessage(env) ==
    /\ session' = DispatchSession(session, env)
    /\ hlast' = [event_type |-> IF env.json_ok THEN env.event_type ELSE "",
                 events |-> DispatchEvents(session, env),
                 audio |-> IF DispatchAudio(session, env) THEN 1 ELSE 0,
                 root |-> DispatchRoot(env),
                 tick |-> 1 - hlast.tick]
    /\ IF DispatchAudio(session, env)
       THEN /\ downlink.total_packets < MaxProcessCalls
            /\ Len(ohist.written) < MaxPackets
            /\ DownlinkProcess([i \in 1..env.content_len |->
                                    Len(ohist.written) + 1])
       ELSE UNCHANGED opusVars

\* json_parser_task hands the messages it reads to handle_coze_message
Dispatches ==
    \E env \in Envelopes :
        /\ HandleCozeMessage(env)
        /\ UNCHANGED <<ringVars, frameVars, playback, lifeVars, apiVars>>

(***************************************************************************)
(* SpecPlayback: coze_audio_callback (coze_chat_app.c), called by the      *)
(* decode task through the downlink callback with a decoded frame of       *)
(* 1 .. 960 samples (len = samples * sizeof(int16_t)).  The free space is  *)
(* whatever audio_manager_get_playback_free_space returns.                 *)
(***************************************************************************)
\* downlink->pcm_buffer_size: the most samples one decoded frame has
PcmBufferSize == 960
\* const size_t MIN_FREE_SPACE = 32 * 1024
MIN_FREE_SPACE == 32 * 1024
\* the divisor of the delay: 16000 samples per second
SampleRate == 16000
\* configTICK_RATE_HZ of the build
TickRates == {100, 1000}

FrameSamples == {1, 15, 16, 17, 160, 320, PcmBufferSize}

FreeSpaces == {0, MIN_FREE_SPACE - 1, MIN_FREE_SPACE, 2 * MIN_FREE_SPACE}

\* the delay computed over the frame's bytes instead of its samples
DelayMsOfBytes(samples) == ((2 * samples) * 1000) \div SampleRate

\* uint32_t delay_ms = (samples * 1000) / 16000; with at most PcmBufferSize
\* samples the product stays far below 2^32
DelayMs(samples) == (samples * 1000) \div SampleRate

\* pdMS_TO_TICKS(ms)
MsToTicks(ms, hz) == (ms * hz) \div 1000

\* coze_audio_callback(data, len, ctx) up to the test of free_space;
\* samples = len / sizeof(int16_t)
AudioCallbackEnter ==
    \E len \in {2 * n : n \in FrameSamples}, free_space \in FreeSpaces :
        /\ playback.pc = "idle"
        /\ playback.frames < MaxFrames
        /\ playback' = [playback EXCEPT
                !.pc = IF free_space < MIN_FREE_SPACE THEN "delay" ELSE "play",
                !.samples = len \div 2,
                !.free_space = free_space,
                !.frames = @ + 1,
                !.log = <<>>, !.delay_ms = 0, !.ticks = 0, !.played = 0]
        /\ UNCHANGED <<ringVars, opusVars, frameVars, session, hlast, lifeVars,
                       apiVars>>

\* vTaskDelay(pdMS_TO_TICKS(delay_ms))
AudioCallbackDelay ==
    /\ playback.pc = "delay"
    /\ playback' = [playback EXCEPT
            !.pc = "play",
            !.log = Append(@, "vTaskDelay"),
            !.delay_ms = DelayMs(playback.samples),
            !.ticks = MsToTicks(DelayMs(playback.samples), playback.hz)]
    /\ UNCHANGED <<ringVars, opusVars, frameVars, session, hlast, lifeVars,
                   apiVars>>

\* audio_manager_play_audio((int16_t *)data, samples)
AudioCallbackPlay ==
    /\ playback.pc = "play"
    /\ playback' = [playback EXCEPT
            !.pc = "idle",
            !.log = Append(@, "audio_manager_play_audio"),
            !.played = playback.samples,
            !.plays = @ + 1]
    /\ UNCHANGED <<ringVars, opusVars, frameVars, session, hlast, lifeVars,
                   apiVars>>

PlaybackIdle(hz) ==
    [pc |-> "idle", samples |-> 0, free_space |-> 0, frames |-> 0,
     log |-> <<>>, delay_ms |-> 0, ticks |-> 0, played |-> 0, plays |-> 0,
     hz |-> hz]

NoDispatch ==
    [event_type |-> "", events |-> <<>>, audio |-> 0, root |-> "none", tick |-> 0]

\* coze_chat_init copies the callbacks and the configuration; coze_chat_start
\* creates the downlink
SessionConfigs ==
    {[session_created |-> FALSE, event_callback |-> c, enable_subtitle |-> e,
      audio_downlink |-> TRUE, connected |-> n,
      session_id |-> "", conversation_id |-> ""] :
        c \in BOOLEAN, e \in BOOLEAN, n \in BOOLEAN}

DispatchIdle ==
    /\ playback = PlaybackIdle(1000)
    /\ session = [session_created |-> FALSE, event_callback |-> TRUE,
                  enable_subtitle |-> TRUE, audio_downlink |-> TRUE,
                  connected |-> FALSE,
                  session_id |-> "", conversation_id |-> ""]
    /\ hlast = NoDispatch

(***************************************************************************)
(* SpecTeardown: the three pipeline tasks, their ring buffers, the         *)
(* websocket's OnData callback and the thread that runs coze_chat_deinit   *)
(* (coze_chat_stop, audio_uplink_destroy, audio_downlink_destroy).  A ring *)
(* buffer is a count of buffered items and its binary data_sem.  vTaskDelay*)
(* is a step of the stopping thread: nothing in the code ties its end to   *)
(* the task's exit.                                                        *)
(***************************************************************************)
Pipelines == {"uplink", "parser", "decode"}

\* simple_ring_buffer_create / opus_buffer_create
PipeCreated ==
    [alive |-> TRUE, null |-> FALSE, data |-> 0, sem |-> 0,
     task_hit |-> FALSE, writer_hit |-> FALSE]

\* simple_ring_buffer_write / opus_buffer_write of one item by a writer:
\* refused when full, stored and data_sem given otherwise; a write through a
\* handle whose buffer was destroyed uses freed memory
PipeWrite(b) ==
    IF ~b.alive THEN [b EXCEPT !.writer_hit = TRUE]
    ELSE IF b.data >= MaxItems THEN b
    ELSE [b EXCEPT !.data = @ + 1, !.sem = 1]

\* simple_ring_buffer_destroy / opus_buffer_destroy
PipeDestroy(b) == [b EXCEPT !.alive = FALSE, !.data = 0, !.sem = 0]

\* the timeout the task passes to the read: 200 ms for audio_uplink_task,
\* portMAX_DELAY for the other two; pdMS_TO_TICKS(portMAX_DELAY) is
\* portMAX_DELAY (wait for ever) or a large finite number of ticks,
\* depending on the tick rate and the width of the macro's arithmetic
WaitIsFinite(p) == p = "uplink" \/ ~build.max_delay_forever

\* while (running): leave the loop, or call the read up to its test of
\* read_pos == write_pos (count == 0)
TaskLoop(p) ==
    /\ task[p] = "test"
    /\ IF ~running[p]
         THEN /\ task' = [task EXCEPT ![p] = "exited"]
              /\ UNCHANGED pipe
       ELSE IF pipe[p].null
         THEN UNCHANGED <<task, pipe>>
       ELSE IF ~pipe[p].alive
         THEN /\ \E to \in {"wait", "read"} : task' = [task EXCEPT ![p] = to]
              /\ pipe' = [pipe EXCEPT ![p].task_hit = TRUE]
       ELSE /\ task' = [task EXCEPT ![p] =
                            IF pipe[p].data = 0 THEN "wait" ELSE "read"]
            /\ UNCHANGED pipe
    /\ UNCHANGED <<ringVars, opusVars, frameVars, dispVars,
                   running, teardown, transport, build, apiVars>>

\* xSemaphoreTake(data_sem, ...) == pdTRUE
TaskWake(p) ==
    /\ task[p] = "wait"
    /\ pipe[p].alive
    /\ pipe[p].sem = 1
    /\ pipe' = [pipe EXCEPT ![p].sem = 0]
    /\ task' = [task EXCEPT ![p] = "read"]
    /\ UNCHANGED <<ringVars, opusVars, frameVars, dispVars,
                   running, teardown, transport, build, apiVars>>

\* xSemaphoreTake(data_sem, ...) != pdTRUE: the read returns nothing and the
\* loop continues
TaskWaitTimeout(p) ==
    /\ task[p] = "wait"
    /\ pipe[p].alive
    /\ pipe[p].sem = 0
    /\ WaitIsFinite(p)
    /\ task' = [task EXCEPT ![p] = "test"]
    /\ UNCHANGED <<ringVars, opusVars, frameVars, dispVars,
                   running, pipe, teardown, transport, build, apiVars>>

\* the task is blocked on a data_sem that vSemaphoreDelete has deleted:
\* it stays blocked, or the take returns with either result
TaskWaitDeleted(p) ==
    /\ task[p] = "wait"
    /\ ~pipe[p].alive
    /\ \E to \in {"test", "read"} : task' = [task EXCEPT ![p] = to]
    /\ pipe' = [pipe EXCEPT ![p].task_hit = TRUE]
    /\ UNCHANGED <<ringVars, opusVars, frameVars, dispVars,
                   running, teardown, transport, build, apiVars>>

\* the part of the read under the mutex: an item is taken if there is one
TaskRead(p) ==
    /\ task[p] = "read"
    /\ pipe[p].alive
    /\ IF pipe[p].data > 0
         THEN /\ pipe' = [pipe EXCEPT ![p].data = @ - 1]
              /\ task' = [task EXCEPT ![p] = "work"]
         ELSE /\ task' = [task EXCEPT ![p] = "test"]
              /\ UNCHANGED pipe
    /\ UNCHANGED <<ringVars, opusVars, frameVars, dispVars,
                   running, teardown, transport, build, apiVars>>

\* the same part of the read on a destroyed buffer: freed memory decides
TaskReadDeleted(p) ==
    /\ task[p] = "read"
    /\ ~pipe[p].alive
    /\ \E to \in {"test", "work"} : task' = [task EXCEPT ![p] = to]
    /\ pipe' = [pipe EXCEPT ![p].task_hit = TRUE]
    /\ UNCHANGED <<ringVars, opusVars, frameVars, dispVars,
                   running, teardown, transport, build, apiVars>>

\* the rest of the loop body: encode and send (uplink), handle_coze_message
\* (parser; an audio delta is written to the opus buffer by
\* audio_downlink_process), decode and play (decode)
TaskWork(p) ==
    /\ task[p] = "work"
    /\ task' = [task EXCEPT ![p] = "test"]
    /\ \E audio \in BOOLEAN :
          IF p = "parser" /\ audio
            THEN pipe' = [pipe EXCEPT !["decode"] = PipeWrite(@)]
            ELSE UNCHANGED pipe
    /\ UNCHANGED <<ringVars, opusVars, frameVars, dispVars,
                   running, teardown, transport, build, apiVars>>

\* audio_uplink_write, called by the recorder while the session is up
UplinkWrite ==
    /\ teardown = "up"
    /\ pipe["uplink"].data < MaxItems
    /\ pipe' = [pipe EXCEPT !["uplink"] = PipeWrite(@)]
    /\ UNCHANGED <<ringVars, opusVars, frameVars, dispVars,
                   running, task, teardown, transport, build, apiVars>>

\* OnData up to the call that writes the length: the message is dropped
\* when handle->ws_ring_buffer is NULL
OnDataEnter ==
    /\ transport.open
    /\ transport.cb = "idle"
    /\ transport' = [transport EXCEPT
            !.cb = IF pipe["parser"].null THEN "idle" ELSE "len",
            !.dropped = IF pipe["parser"].null THEN TRUE ELSE @]
    /\ UNCHANGED <<ringVars, opusVars, frameVars, dispVars,
                   running, task, pipe, teardown, build, apiVars>>

\* simple_ring_buffer_write of the length, then the test of its result and
\* the load of handle->ws_ring_buffer for the payload's write
OnDataLenWrite ==
    /\ transport.cb = "len"
    /\ pipe' = [pipe EXCEPT !["parser"].writer_hit = @ \/ ~pipe["parser"].alive]
    /\ transport' = [transport EXCEPT
            !.cb = IF pipe["parser"].null THEN "idle" ELSE "data"]
    /\ UNCHANGED <<ringVars, opusVars, frameVars, dispVars,
                   running, task, teardown, build, apiVars>>

\* simple_ring_buffer_write of the payload: the message is one item
OnDataWrite ==
    /\ transport.cb = "data"
    /\ pipe' = [pipe EXCEPT !["parser"] = PipeWrite(@)]
    /\ transport' = [transport EXCEPT !.cb = "idle"]
    /\ UNCHANGED <<ringVars, opusVars, frameVars, dispVars,
                   running, task, teardown, build, apiVars>>

\* coze_chat_stop: audio_uplink_stop sets running = false
UplinkStopFlag ==
    /\ teardown = "up"
    /\ running' = [running EXCEPT !["uplink"] = FALSE]
    /\ teardown' = "uplink_delay"
    /\ UNCHANGED <<ringVars, opusVars, frameVars, dispVars,
                   task, pipe, transport, build, apiVars>>

\* audio_uplink_stop: vTaskDelay(200 ms) returns, task = NULL
UplinkStopDelay ==
    /\ teardown = "uplink_delay"
    /\ teardown' = "parser_flag"
    /\ UNCHANGED <<ringVars, opusVars, frameVars, dispVars,
                   running, task, pipe, transport, build, apiVars>>

\* coze_chat_stop: parser_running = false
ParserStopFlag ==
    /\ teardown = "parser_flag"
    /\ running' = [running EXCEPT !["parser"] = FALSE]
    /\ teardown' = "parser_delay"
    /\ UNCHANGED <<ringVars, opusVars, frameVars, dispVars,
                   task, pipe, transport, build, apiVars>>

\* coze_chat_stop: vTaskDelay(100 ms) returns, parser_task = NULL
ParserStopDelay ==
    /\ teardown = "parser_delay"
    /\ teardown' = "ring_destroy"
    /\ UNCHANGED <<ringVars, opusVars, frameVars, dispVars,
                   running, task, pipe, transport, build, apiVars>>

\* coze_chat_stop: simple_ring_buffer_destroy(ws_ring_buffer),
\* ws_ring_buffer = NULL
WsRingDestroy ==
    /\ teardown = "ring_destroy"
    /\ pipe' = [pipe EXCEPT !["parser"] = [PipeDestroy(@) EXCEPT !.null = TRUE]]
    /\ teardown' = "ws_close"
    /\ UNCHANGED <<ringVars, opusVars, frameVars, dispVars,
                   running, task, transport, build, apiVars>>

\* coze_chat_stop: websocket->Close() waits for the client task, so it
\* returns when no callback is running; websocket.reset(), connected = false
WebsocketClose ==
    /\ teardown = "ws_close"
    /\ transport.cb = "idle"
    /\ transport' = [transport EXCEPT !.open = FALSE]
    /\ teardown' = "uplink_destroy"
    /\ UNCHANGED <<ringVars, opusVars, frameVars, dispVars,
                   running, task, pipe, build, apiVars>>

\* coze_chat_deinit: audio_uplink_destroy (its audio_uplink_stop returns at
\* once, running being false) destroys the uplink's ring buffer
UplinkDestroy ==
    /\ teardown = "uplink_destroy"
    /\ pipe' = [pipe EXCEPT !["uplink"] = PipeDestroy(@)]
    /\ teardown' = "downlink_flag"
    /\ UNCHANGED <<ringVars, opusVars, frameVars, dispVars,
                   running, task, transport, build, apiVars>>

\* audio_downlink_destroy: decode_running = false
DownlinkStopFlag ==
    /\ teardown = "downlink_flag"
    /\ running' = [running EXCEPT !["decode"] = FALSE]
    /\ teardown' = "downlink_delay"
    /\ UNCHANGED <<ringVars, opusVars, frameVars, dispVars,
                   task, pipe, transport, build, apiVars>>

\* audio_downlink_destroy: vTaskDelay(100 ms) returns, decode_task = NULL
DownlinkStopDelay ==
    /\ teardown = "downlink_delay"
    /\ teardown' = "opus_destroy"
    /\ UNCHANGED <<ringVars, opusVars, frameVars, dispVars,
                   running, task, pipe, transport, build, apiVars>>

\* audio_downlink_destroy: opus_buffer_destroy
OpusBufferDestroy ==
    /\ teardown = "opus_destroy"
    /\ pipe' = [pipe EXCEPT !["decode"] = PipeDestroy(@)]
    /\ teardown' = "done"
    /\ UNCHANGED <<ringVars, opusVars, frameVars, dispVars,
                   running, task, transport, build, apiVars>>

(***************************************************************************)
(* SpecStats: the counters of audio_downlink_t.  They are plain uint32_t   *)
(* fields, incremented with ++ by the task that runs                       *)
(* audio_downlink_process and by opus_decode_task under no lock; each ++   *)
(* is a load and a store, between which the other task runs.               *)
(***************************************************************************)
StatsIdle ==
    [process |-> [pc |-> "idle", reg |-> 0],
     decode  |-> [pc |-> "idle", reg |-> 0],
     resets  |-> 0]

\* audio_downlink_process: the load of total_packets++
StatsProcessEnter ==
    /\ stats.process.pc = "idle"
    /\ downlink.total_packets < MaxStatCalls
    /\ downlink.error_count < MaxStatCalls
    /\ Len(ohist.written) < MaxStatCalls
    /\ stats' = [stats EXCEPT !.process = [pc |-> "total_packets",
                                           reg |-> downlink.total_packets]]
    /\ downlink' = [downlink EXCEPT !.ret = "none",
                                    !.full0 = downlink.buffer_full_count]
    /\ UNCHANGED <<ringVars, frameVars, dispVars, lifeVars, apiButStats,
                   ob, olast, ohist>>

\* audio_downlink_process: the store of total_packets++, then
\* base64_decode_audio (data is what it returns) and opus_buffer_write
StatsProcessStoreTotal ==
    /\ stats.process.pc = "total_packets"
    /\ \E len \in {0, 1, OpusMaxPacket + 1} :
        LET data == [i \in 1..len |-> Len(ohist.written) + 1]
            ok   == len > 0 /\ OpusWriteResult(ob, data) = "ESP_OK"
        IN  /\ IF len = 0
                 THEN /\ olast' = [NoOpusOp EXCEPT !.op = "none_written"]
                      /\ ohist' = NoRun(ohist)
                      /\ UNCHANGED ob
                 ELSE OpusWrite(data)
            /\ downlink' = [downlink EXCEPT
                   !.total_packets = stats.process.reg + 1,
                   !.ret = IF ok THEN "ESP_OK" ELSE @]
            /\ stats' = [stats EXCEPT !.process.pc =
                            IF len = 0 THEN "error_count"
                            ELSE IF ok THEN "idle" ELSE "buffer_full_count"]
    /\ UNCHANGED <<ringVars, frameVars, dispVars, lifeVars, apiButStats>>

\* audio_downlink_process: the load of error_count++ or buffer_full_count++
StatsProcessLoad ==
    /\ stats.process.pc \in {"error_count", "buffer_full_count"}
    /\ stats' = [stats EXCEPT !.process =
                    [pc  |-> IF @.pc = "error_count" THEN "error_store"
                             ELSE "full_store",
                     reg |-> IF @.pc = "error_count" THEN downlink.error_count
                             ELSE downlink.buffer_full_count]]
    /\ UNCHANGED <<ringVars, opusVars, frameVars, dispVars, lifeVars,
                   apiButStats>>

\* audio_downlink_process: the store of that ++, return ESP_FAIL
StatsProcessStore ==
    /\ stats.process.pc \in {"error_store", "full_store"}
    /\ downlink' = IF stats.process.pc = "error_store"
                   THEN [downlink EXCEPT !.error_count = stats.process.reg + 1,
                                         !.ret = "ESP_FAIL"]
                   ELSE [downlink EXCEPT
                            !.buffer_full_count = stats.process.reg + 1,
                            !.ret = "ESP_FAIL"]
    /\ stats' = [stats EXCEPT !.process.pc = "idle"]
    /\ UNCHANGED <<ringVars, frameVars, dispVars, lifeVars, apiButStats,
                   ob, olast, ohist>>

\* opus_decode_task, one iteration with a packet in the buffer, up to the
\* result of Decode
StatsDecodeIteration ==
    /\ stats.decode.pc = "idle"
    /\ \E decoded \in BOOLEAN :
        /\ OpusReadPacket(OpusMaxPacket)
        /\ stats' = [stats EXCEPT !.decode.pc =
                        IF olast'.ret = "ESP_OK" /\ Len(olast'.out) > 0
                           /\ ~decoded
                        THEN "error_count" ELSE "idle"]
        /\ downlink' = IF olast'.ret = "ESP_OK" /\ Len(olast'.out) > 0
                          /\ decoded
                       THEN [downlink EXCEPT !.played = Append(@, olast'.out)]
                       ELSE downlink
    /\ UNCHANGED <<ringVars, frameVars, dispVars, lifeVars, apiButStats>>

\* opus_decode_task: the load of error_count++
StatsDecodeLoad ==
    /\ stats.decode.pc = "error_count"
    /\ stats' = [stats EXCEPT !.decode = [pc |-> "error_store",
                                          reg |-> downlink.error_count]]
    /\ UNCHANGED <<ringVars, opusVars, frameVars, dispVars, lifeVars,
                   apiButStats>>

\* opus_decode_task: the store of error_count++
StatsDecodeStore ==
    /\ stats.decode.pc = "error_store"
    /\ downlink' = [downlink EXCEPT !.error_count = stats.decode.reg + 1]
    /\ stats' = [stats EXCEPT !.decode.pc = "idle"]
    /\ UNCHANGED <<ringVars, frameVars, dispVars, lifeVars, apiButStats,
                   ob, olast, ohist>>

\* audio_downlink_reset_stats, called by the application's task
StatsReset ==
    /\ stats.resets < MaxResets
    /\ downlink' = [downlink EXCEPT !.total_packets = 0, !.error_count = 0]
    /\ stats' = [stats EXCEPT !.resets = @ + 1]
    /\ UNCHANGED <<ringVars, frameVars, dispVars, lifeVars, apiButStats,
                   ob, olast, ohist>>

(***************************************************************************)
(* SpecLocks: the lock protocol of both buffers.  opus_buffer_write and     *)
(* opus_buffer_read step by step, one task in each: taking buffer->mutex,   *)
(* the critical section up to xSemaphoreGive(buffer->mutex), waiting on     *)
(* data_sem and giving data_sem are steps of their own.  Beside them a      *)
(* writer and a reader of a simple_ring_buffer, with the steps of Spec.     *)
(* Writes are of one byte (the protocol does not look at the data), the     *)
(* packet buffer is also offered the two lengths it refuses.               *)
(***************************************************************************)
OcallIdle ==
    [mutex |-> "free",
     w |-> [pc |-> "idle", data |-> <<>>, ret |-> "none"],
     r |-> [pc |-> "idle", max_len |-> 0, timeout_ms |-> 0, ret |-> "none"],
     nw |-> 0]

\* opus_buffer_write: the argument checks (len == 0, len > max_packet_size)
OpusLockWriteEnter ==
    /\ ocall.w.pc = "idle"
    /\ ocall.nw < MaxLockWrites
    /\ \E len \in {0, 1, OpusMaxPacket + 1} :
        LET data == [i \in 1..len |-> ocall.nw + 1]
            bad  == len = 0 \/ len > ob.max_packet_size
        IN  ocall' = [ocall EXCEPT
                        !.nw = @ + 1,
                        !.w = [pc   |-> IF bad THEN "idle" ELSE "take_mutex",
                               data |-> data,
                               ret  |-> IF bad THEN OpusWriteResult(ob, data)
                                        ELSE "none"]]
    /\ UNCHANGED <<ringVars, opusVars, frameVars, dispVars, lifeVars,
                   apiButOcall>>

\* opus_buffer_write: xSemaphoreTake(buffer->mutex, 10 ms) succeeds
OpusLockWriteTakeMutex ==
    /\ ocall.w.pc = "take_mutex"
    /\ ocall.mutex = "free"
    /\ ocall' = [ocall EXCEPT !.mutex = "W", !.w.pc = "locked"]
    /\ UNCHANGED <<ringVars, opusVars, frameVars, dispVars, lifeVars,
                   apiButOcall>>

\* opus_buffer_write: xSemaphoreTake(buffer->mutex, 10 ms) expires
OpusLockWriteMutexTimeout ==
    /\ ocall.w.pc = "take_mutex"
    /\ ocall.mutex # "free"
    /\ ocall' = [ocall EXCEPT !.w.pc = "idle", !.w.ret = "ESP_ERR_TIMEOUT"]
    /\ UNCHANGED <<ringVars, opusVars, frameVars, dispVars, lifeVars,
                   apiButOcall>>

\* opus_buffer_write: the count check, header and payload, count++,
\* xSemaphoreGive(buffer->mutex)
OpusLockWriteCritical ==
    /\ ocall.w.pc = "locked"
    /\ LET ret == OpusWriteResult(ob, ocall.w.data)
       IN  /\ ob' = IF ret = "ESP_OK"
                    THEN [OpusStore(ob, ocall.w.data)
                             EXCEPT !.data_sem = ob.data_sem]
                    ELSE ob
           /\ ocall' = [ocall EXCEPT
                           !.mutex = "free",
                           !.w.pc = IF ret = "ESP_OK" THEN "give_sem" ELSE "idle",
                           !.w.ret = IF ret = "ESP_OK" THEN "none" ELSE ret]
    /\ UNCHANGED <<ringVars, olast, ohist, downlink, frameVars, dispVars,
                   lifeVars, apiButOcall>>

\* opus_buffer_write: xSemaphoreGive(buffer->data_sem), return ESP_OK
OpusLockWriteGiveSem ==
    /\ ocall.w.pc = "give_sem"
    /\ ob' = [ob EXCEPT !.data_sem = 1]
    /\ ocall' = [ocall EXCEPT !.w.pc = "idle", !.w.ret = "ESP_OK"]
    /\ UNCHANGED <<ringVars, olast, ohist, downlink, frameVars, dispVars,
                   lifeVars, apiButOcall>>

\* an opus_buffer_read that takes buffer->mutex before it waits on data_sem
OpusLockReadEnterLocked ==
    /\ ocall.r.pc = "idle"
    /\ ocall.mutex = "free"
    /\ \E max_len \in {1, OpusMaxPacket}, timeout_ms \in {0, 1} :
        ocall' = [ocall EXCEPT
                    !.mutex = IF ob.count = 0 /\ timeout_ms > 0
                              THEN "R" ELSE @,
                    !.r = [pc |-> IF ob.count = 0 /\ timeout_ms > 0
                                  THEN "take_sem" ELSE "take_mutex",
                           max_len |-> max_len, timeout_ms |-> timeout_ms,
                           ret |-> "none"]]
    /\ UNCHANGED <<ringVars, opusVars, frameVars, dispVars, lifeVars,
                   apiButOcall>>

\* opus_buffer_read: if (buffer->count == 0 && timeout_ms > 0) wait on
\* data_sem, otherwise go on to the mutex
OpusLockReadEnter ==
    /\ ocall.r.pc = "idle"
    /\ \E max_len \in {1, OpusMaxPacket}, timeout_ms \in {0, 1} :
        ocall' = [ocall EXCEPT
                    !.r = [pc |-> IF ob.count = 0 /\ timeout_ms > 0
                                  THEN "take_sem" ELSE "take_mutex",
                           max_len |-> max_len, timeout_ms |-> timeout_ms,
                           ret |-> "none"]]
    /\ UNCHANGED <<ringVars, opusVars, frameVars, dispVars, lifeVars,
                   apiButOcall>>

\* opus_buffer_read: xSemaphoreTake(buffer->data_sem, timeout) succeeds
OpusLockReadTakeSem ==
    /\ ocall.r.pc = "take_sem"
    /\ ob.data_sem = 1
    /\ ob' = [ob EXCEPT !.data_sem = 0]
    /\ ocall' = [ocall EXCEPT !.r.pc = "take_mutex"]
    /\ UNCHANGED <<ringVars, olast, ohist, downlink, frameVars, dispVars,
                   lifeVars, apiButOcall>>

\* opus_buffer_read: xSemaphoreTake(buffer->data_sem, timeout) expires
OpusLockReadSemTimeout ==
    /\ ocall.r.pc = "take_sem"
    /\ ocall.r.timeout_ms # PortMaxDelay
    /\ ob.data_sem = 0
    /\ ocall' = [ocall EXCEPT !.r.pc = "idle", !.r.ret = "ESP_ERR_TIMEOUT"]
    /\ UNCHANGED <<ringVars, opusVars, frameVars, dispVars, lifeVars,
                   apiButOcall>>

\* opus_buffer_read: xSemaphoreTake(buffer->mutex, 10 ms) succeeds
OpusLockReadTakeMutex ==
    /\ ocall.r.pc = "take_mutex"
    /\ ocall.mutex = "free"
    /\ ocall' = [ocall EXCEPT !.mutex = "R", !.r.pc = "locked"]
    /\ UNCHANGED <<ringVars, opusVars, frameVars, dispVars, lifeVars,
                   apiButOcall>>

\* opus_buffer_read: xSemaphoreTake(buffer->mutex, 10 ms) expires
OpusLockReadMutexTimeout ==
    /\ ocall.r.pc = "take_mutex"
    /\ ocall.mutex # "free"
    /\ ocall' = [ocall EXCEPT !.r.pc = "idle", !.r.ret = "ESP_ERR_TIMEOUT"]
    /\ UNCHANGED <<ringVars, opusVars, frameVars, dispVars, lifeVars,
                   apiButOcall>>

\* opus_buffer_read: the count check, header, size check, payload, count--,
\* xSemaphoreGive(buffer->mutex) on each of the three ways out
OpusLockReadCritical ==
    /\ ocall.r.pc = "locked"
    /\ \/ /\ ob.count = 0
          /\ ocall' = [ocall EXCEPT !.mutex = "free", !.r.pc = "idle",
                                    !.r.ret = "ESP_ERR_NOT_FOUND"]
          /\ UNCHANGED <<ob, olast, ohist>>
       \/ /\ OpusReadPacket(ocall.r.max_len)
          /\ ocall' = [ocall EXCEPT !.mutex = "free", !.r.pc = "idle",
                                    !.r.ret = olast'.ret]
    /\ UNCHANGED <<ringVars, downlink, frameVars, dispVars, lifeVars,
                   apiButOcall>>

OpusLockNext ==
    \/ OpusLockWriteEnter \/ OpusLockWriteTakeMutex \/ OpusLockWriteMutexTimeout
    \/ OpusLockWriteCritical \/ OpusLockWriteGiveSem
    \/ OpusLockReadEnter \/ OpusLockReadTakeSem \/ OpusLockReadSemTimeout
    \/ OpusLockReadTakeMutex \/ OpusLockReadMutexTimeout
    \/ OpusLockReadCritical

\* simple_ring_buffer_write of one byte
LocksRingWrite ==
    /\ wcount < MaxLockWrites
    /\ WriteEnter(<<wcount + 1>>)
    /\ UNCHANGED <<rb, mutex, data_sem, rcall, wcount, rlog, peak, last,
                   opusVars, frameVars, dispVars, lifeVars, apiVars>>

\* simple_ring_buffer_read for one byte, polling or waiting
LocksRingRead ==
    /\ \E timeout_ms \in {0, 1} : ReadEnter(1, timeout_ms)
    /\ UNCHANGED <<rb, mutex, data_sem, wcall, wcount, rlog, peak, last,
                   opusVars, frameVars, dispVars, lifeVars, apiVars>>

LocksRingApi ==
    \/ WriteTakeMutex \/ WriteMutexTimeout \/ WriteCritical \/ WriteGiveSem
    \/ ReadCheckWait \/ ReadCheckGo \/ ReadTakeSem \/ ReadSemTimeout
    \/ ReadTakeMutex \/ ReadMutexTimeout \/ ReadCritical

LocksNext == LocksRingWrite \/ LocksRingRead \/ LocksRingApi \/ OpusLockNext


(***************************************************************************)
(* SpecWake: both buffers with a reader that waits without a timeout, as   *)
(* json_parser_task and opus_decode_task do (portMAX_DELAY), and a writer  *)
(* of one byte, or one packet of one byte, at a time.  A task that can     *)
(* take a step takes it in the end; a call is made or not, and a bounded   *)
(* wait for a mutex expires or not while the mutex is held.                *)
(***************************************************************************)
\* writes in SpecWake, of both buffers together
MaxWakeWrites == 2

\* simple_ring_buffer_write of one byte
WakeRingWrite ==
    /\ wcount + ocall.nw < MaxWakeWrites
    /\ WriteEnter(<<wcount + 1>>)
    /\ UNCHANGED <<rb, mutex, data_sem, rcall, wcount, rlog, peak, last,
                   opusVars, frameVars, dispVars, lifeVars, apiVars>>

\* simple_ring_buffer_read(rb, out, 1, portMAX_DELAY)
WakeRingRead ==
    /\ ReadEnter(1, PortMaxDelay)
    /\ UNCHANGED <<rb, mutex, data_sem, wcall, wcount, rlog, peak, last,
                   opusVars, frameVars, dispVars, lifeVars, apiVars>>

\* opus_buffer_write of a packet of one byte
OpusWakeWriteEnter ==
    /\ ocall.w.pc = "idle"
    /\ wcount + ocall.nw < MaxWakeWrites
    /\ ocall' = [ocall EXCEPT
                    !.nw = @ + 1,
                    !.w = [pc |-> "take_mutex", data |-> <<ocall.nw + 1>>,
                           ret |-> "none"]]
    /\ UNCHANGED <<ringVars, opusVars, frameVars, dispVars, lifeVars,
                   apiButOcall>>

\* opus_buffer_read(buffer, out, max_packet_size, &len, portMAX_DELAY)
OpusWakeReadEnter ==
    /\ ocall.r.pc = "idle"
    /\ ocall' = [ocall EXCEPT
                    !.r = [pc |-> IF ob.count = 0 THEN "take_sem"
                                  ELSE "take_mutex",
                           max_len |-> OpusMaxPacket,
                           timeout_ms |-> PortMaxDelay, ret |-> "none"]]
    /\ UNCHANGED <<ringVars, opusVars, frameVars, dispVars, lifeVars,
                   apiButOcall>>

WakeRingSteps ==
    \/ WriteTakeMutex \/ WriteCritical \/ WriteGiveSem
    \/ ReadCheckWait \/ ReadCheckGo \/ ReadTakeSem
    \/ ReadTakeMutex \/ ReadCritical

WakeOpusSteps ==
    \/ OpusLockWriteTakeMutex \/ OpusLockWriteCritical \/ OpusLockWriteGiveSem
    \/ OpusLockReadTakeSem \/ OpusLockReadTakeMutex \/ OpusLockReadCritical

WakeTimeouts ==
    \/ WriteMutexTimeout \/ ReadMutexTimeout
    \/ OpusLockWriteMutexTimeout \/ OpusLockReadMutexTimeout

WakeNext ==
    \/ WakeRingWrite \/ WakeRingRead \/ OpusWakeWriteEnter \/ OpusWakeReadEnter
    \/ WakeRingSteps \/ WakeOpusSteps \/ WakeTimeouts

(***************************************************************************)
(* SpecSend: the send path of a started session.  The transport's task      *)
(* delivers Connected and Disconnected notifications; the application's     *)
(* task calls coze_chat_send_audio_data, coze_chat_send_audio_complete and  *)
(* coze_chat_send_audio_cancel; audio_uplink_task reads frames of FRAME_SIZE*)
(* bytes from the capture buffer.  The capture buffer is the ring buffer of *)
(* Spec, with the steps of its calls; the k-th byte captured is k.          *)
(***************************************************************************)
OutTypes == {"chat.update", "input_audio_buffer.append",
             "input_audio_buffer.complete", "input_audio_buffer.clear"}

LinkIdle ==
    [pc |-> "idle", cb |-> "idle", nconn |-> 0, sent |-> [t \in OutTypes |-> 0],
     pcm |-> <<>>,
     counters |-> [c \in {"packet_count"} |-> 0], enc |-> "none"]

\* CozeWebSocket::Send(message) called with a message of the given event_type
Send(l, type) == [l EXCEPT !.sent[type] = @ + 1]

\* WEBSOCKET_EVENT_CONNECTED: the OnConnected callback sets connected and calls
\* the application's ws_event_callback; the rest of the callback is
\* ChatConnectedSend
ChatConnected ==
    /\ link.nconn < MaxConnects
    /\ link.cb = "idle"
    /\ session' = [session EXCEPT !.connected = TRUE]
    /\ link' = [link EXCEPT !.nconn = @ + 1, !.cb = "update"]
    /\ UNCHANGED <<ringVars, opusVars, frameVars, hlast, playback, lifeVars,
                   apiButLink>>

\* an OnConnected callback that sends chat.update on the first connection only
ChatConnectedSendOnce ==
    /\ link.cb = "update"
    /\ link' = IF link.nconn = 1
               THEN [Send(link, "chat.update") EXCEPT !.cb = "idle"]
               ELSE [link EXCEPT !.cb = "idle"]
    /\ UNCHANGED <<ringVars, opusVars, frameVars, dispVars, lifeVars,
                   apiButLink>>

\* the end of the OnConnected callback: the chat.update message is built and
\* handed to Send
ChatConnectedSend ==
    /\ link.cb = "update"
    /\ link' = [Send(link, "chat.update") EXCEPT !.cb = "idle"]
    /\ UNCHANGED <<ringVars, opusVars, frameVars, dispVars, lifeVars,
                   apiButLink>>

\* WEBSOCKET_EVENT_DISCONNECTED: the OnDisconnected callback clears connected.
\* The transport's event task runs one callback at a time.
ChatDisconnected ==
    /\ session.connected
    /\ link.cb = "idle"
    /\ session' = [session EXCEPT !.connected = FALSE]
    /\ UNCHANGED <<ringVars, opusVars, frameVars, hlast, playback, lifeVars,
                   apiVars>>

\* a coze_chat_send_audio_data that does not test connected
SendAudioDataUngated ==
    \E n \in 1..FrameSize :
        /\ wcount + n <= MaxCaptured
        /\ WriteEnter(Labels(wcount + 1, n))
        /\ UNCHANGED <<rb, mutex, data_sem, rcall, wcount, rlog, peak, last,
                       opusVars, frameVars, dispVars, lifeVars, apiVars>>

\* coze_chat_send_audio_data(handle, audio_data, len), len > 0: ESP_FAIL
\* unless connected, then audio_uplink_write, which is
\* simple_ring_buffer_write on the capture buffer
SendAudioData ==
    \E n \in 1..FrameSize :
        /\ wcount + n <= MaxCaptured
        /\ IF session.connected
           THEN WriteEnter(Labels(wcount + 1, n))
           ELSE /\ wcall.pc = "idle"
                /\ wcall' = [pc |-> "idle", data |-> Labels(wcount + 1, n),
                             ret |-> "ESP_FAIL"]
        /\ UNCHANGED <<rb, mutex, data_sem, rcall, wcount, rlog, peak, last,
                       opusVars, frameVars, dispVars, lifeVars, apiVars>>

\* coze_chat_send_audio_complete: ESP_FAIL unless connected; nothing is sent
\* under server VAD (vad); otherwise input_audio_buffer.complete
SendAudioComplete ==
    /\ session.connected
    /\ link.sent["input_audio_buffer.complete"] < MaxControl
    /\ \E vad \in BOOLEAN :
        link' = IF vad THEN link ELSE Send(link, "input_audio_buffer.complete")
    /\ UNCHANGED <<ringVars, opusVars, frameVars, dispVars, lifeVars,
                   apiButLink>>

\* coze_chat_send_audio_cancel: ESP_FAIL unless connected, otherwise
\* input_audio_buffer.clear
SendAudioCancel ==
    /\ session.connected
    /\ link.sent["input_audio_buffer.clear"] < MaxControl
    /\ link' = Send(link, "input_audio_buffer.clear")
    /\ UNCHANGED <<ringVars, opusVars, frameVars, dispVars, lifeVars,
                   apiButLink>>

\* audio_uplink_task: simple_ring_buffer_read(uplink->rb, pcm_frame,
\* FRAME_SIZE, 200) is called
UplinkTaskRead ==
    /\ link.pc = "idle"
    /\ running["uplink"]
    /\ ReadEnter(FrameSize, 200)
    /\ link' = [link EXCEPT !.pc = "reading"]
    /\ UNCHANGED <<rb, mutex, data_sem, wcall, wcount, rlog, peak, last,
                   opusVars, frameVars, dispVars, lifeVars, apiButLink>>

\* audio_uplink_task, the read has returned: if (got != FRAME_SIZE) continue;
\* otherwise the frame is encoded (encoded: Opus and base64 succeed) and the
\* input_audio_buffer.append message handed to the send callback
UplinkTaskFrame ==
    /\ link.pc = "reading"
    /\ rcall.pc = "idle"
    /\ IF rcall.ret # FrameSize
       THEN link' = [link EXCEPT !.pc = "idle", !.enc = "none"]
       ELSE \E encoded \in BOOLEAN :
                link' = IF encoded
                        THEN [Send(link, "input_audio_buffer.append") EXCEPT
                                 !.pc = "idle", !.pcm = @ \o rcall.out,
                                 !.counters["packet_count"] = @ + 1,
                                 !.enc = "ok"]
                        ELSE [link EXCEPT
                                 !.pc = "idle", !.pcm = @ \o rcall.out,
                                 !.enc = "failed"]
    /\ UNCHANGED <<ringVars, opusVars, frameVars, dispVars, lifeVars,
                   apiButLink>>

SendRingApi ==
    \/ WriteTakeMutex \/ WriteMutexTimeout \/ WriteCritical \/ WriteGiveSem
    \/ ReadCheckWait \/ ReadCheckGo \/ ReadTakeSem \/ ReadSemTimeout
    \/ ReadTakeMutex \/ ReadMutexTimeout \/ ReadCritical

SendNext ==
    \/ ChatConnected \/ ChatConnectedSend \/ ChatDisconnected
    \/ SendAudioData \/ SendAudioComplete \/ SendAudioCancel
    \/ UplinkTaskRead \/ UplinkTaskFrame
    \/ SendRingApi

(***************************************************************************)
(* SpecSession: the session flags of coze_chat_t under the transport's     *)
(* Connected and Disconnected notifications, the messages json_parser_task *)
(* dispatches and coze_chat_stop.                                          *)
(***************************************************************************)
\* coze_chat_stop, as far as the session flags go: Close() returns when no
\* callback of the transport is running, then connected = false
CozeChatStop ==
    /\ link.cb = "idle"
    /\ session' = [session EXCEPT !.connected = FALSE]
    /\ UNCHANGED <<ringVars, opusVars, frameVars, hlast, playback, lifeVars,
                   apiVars>>

SessionNext ==
    \/ ChatConnected \/ ChatConnectedSend \/ ChatDisconnected
    \/ Dispatches \/ CozeChatStop

(***************************************************************************)
(* SpecUplinkLife: audio_uplink_start and audio_uplink_stop called again    *)
(* and again by one thread, beside the audio_uplink_task instances they     *)
(* create.  A task tests uplink->running at the top of its loop; the read   *)
(* of up to 200 ms is one step, encoding with the send callback another.    *)
(* vTaskDelay(200 ms) in audio_uplink_stop ends when it ends: no step of a  *)
(* task is tied to it.                                                      *)
(***************************************************************************)
UlifeIdle ==
    [running |-> FALSE, task |-> 0, api |-> "idle",
     tasks |-> [i \in 1..MaxStarts |-> "none"]]

\* the audio_uplink_task instances that exist (created and not yet deleted)
AliveTasks ==
    {i \in 1..MaxStarts : ulife.tasks[i] \in {"test", "read", "send"}}

\* audio_uplink_start: returns at once if running; otherwise running = true
\* and xTaskCreate (created: it returns pdPASS), running = false if it fails
AudioUplinkStart ==
    /\ ulife.api = "idle"
    /\ ~ulife.running
    /\ \E i \in 1..MaxStarts :
        /\ ulife.tasks[i] = "none"
        /\ \A j \in 1..(i - 1) : ulife.tasks[j] # "none"
        /\ \E created \in BOOLEAN :
            ulife' = IF created
                     THEN [ulife EXCEPT !.running = TRUE, !.task = i,
                                        !.tasks[i] = "test"]
                     ELSE ulife
    /\ UNCHANGED <<ringVars, opusVars, frameVars, dispVars, lifeVars,
                   apiButUlife>>

\* audio_uplink_stop: returns at once unless running; running = false, then
\* vTaskDelay begins if handle->task is set
AudioUplinkStopFlag ==
    /\ ulife.api = "idle"
    /\ ulife.running
    /\ ulife' = [ulife EXCEPT !.running = FALSE,
                              !.api = IF ulife.task # 0 THEN "delay" ELSE "idle"]
    /\ UNCHANGED <<ringVars, opusVars, frameVars, dispVars, lifeVars,
                   apiButUlife>>

\* audio_uplink_stop: vTaskDelay(200 ms) is over, handle->task = NULL
AudioUplinkStopDelay ==
    /\ ulife.api = "delay"
    /\ ulife' = [ulife EXCEPT !.api = "idle", !.task = 0]
    /\ UNCHANGED <<ringVars, opusVars, frameVars, dispVars, lifeVars,
                   apiButUlife>>

\* audio_uplink_task i: while (uplink->running); vTaskDelete(NULL) after it
AudioUplinkTaskTest(i) ==
    /\ ulife.tasks[i] = "test"
    /\ ulife' = [ulife EXCEPT !.tasks[i] = IF ulife.running THEN "read"
                                           ELSE "exited"]
    /\ UNCHANGED <<ringVars, opusVars, frameVars, dispVars, lifeVars,
                   apiButUlife>>

\* audio_uplink_task i: simple_ring_buffer_read returns; continue unless it
\* gave a whole frame
AudioUplinkTaskRead(i) ==
    /\ ulife.tasks[i] = "read"
    /\ \E whole \in BOOLEAN :
        ulife' = [ulife EXCEPT !.tasks[i] = IF whole THEN "send" ELSE "test"]
    /\ UNCHANGED <<ringVars, opusVars, frameVars, dispVars, lifeVars,
                   apiButUlife>>

\* audio_uplink_task i: the frame is encoded and given to the send callback
AudioUplinkTaskSend(i) ==
    /\ ulife.tasks[i] = "send"
    /\ ulife' = [ulife EXCEPT !.tasks[i] = "test"]
    /\ UNCHANGED <<ringVars, opusVars, frameVars, dispVars, lifeVars,
                   apiButUlife>>

UplinkLifeNext ==
    \/ AudioUplinkStart \/ AudioUplinkStopFlag \/ AudioUplinkStopDelay
    \/ \E i \in 1..MaxStarts :
          \/ AudioUplinkTaskTest(i) \/ AudioUplinkTaskRead(i)
          \/ AudioUplinkTaskSend(i)

(***************************************************************************)
(* SpecTts: the calls of the xn_tts API on one instance, made one after    *)
(* the other.  The engine (esp_tts) is its stream only: a successful parse *)
(* leaves it some chunks of samples to play, esp_tts_stream_play hands out *)
(* one chunk, or len = 0 when none is left, esp_tts_stream_reset drops     *)
(* them.  What a failed parse leaves in the stream is not known.           *)
(***************************************************************************)
\* most chunks of one text
MaxChunks == 2
\* calls of the API in one behaviour
MaxTtsCalls == 5

\* xn_tts_init: is_playing = false
TtsIdle ==
    [is_playing |-> FALSE, chunks |-> 0, op |-> "init", ret |-> 0,
     data |-> "unset", len |-> 0, calls |-> 0, ended |-> FALSE]

\* xn_tts_stop: is_playing = false, esp_tts_stream_reset
TtsStopped(t) == [t EXCEPT !.is_playing = FALSE, !.chunks = 0, !.ended = TRUE]

\* a xn_tts_start_chinese / _pinyin that does not stop what is playing
TtsStartNoStop(fn) ==
    /\ tts.calls < MaxTtsCalls
    /\ \E parsed \in BOOLEAN, n \in 0..MaxChunks :
        tts' = IF parsed
               THEN [tts EXCEPT !.is_playing = TRUE, !.chunks = n,
                                !.ended = FALSE,
                                !.op = fn, !.ret = 0, !.calls = @ + 1]
               ELSE [tts EXCEPT !.chunks = n,
                                !.op = fn, !.ret = -1, !.calls = @ + 1]
    /\ UNCHANGED <<ringVars, opusVars, frameVars, dispVars, lifeVars,
                   apiButTts>>

\* xn_tts_start_chinese / xn_tts_start_pinyin with a text: xn_tts_stop if
\* playing, then the parse, and is_playing = true if it succeeded
TtsStart(fn) ==
    /\ tts.calls < MaxTtsCalls
    /\ \E parsed \in BOOLEAN, n \in 0..MaxChunks :
        LET t == IF tts.is_playing THEN TtsStopped(tts) ELSE tts
        IN  tts' = IF parsed
                   THEN [t EXCEPT !.is_playing = TRUE, !.chunks = n,
                                  !.ended = FALSE,
                                  !.op = fn, !.ret = 0, !.calls = @ + 1]
                   ELSE [t EXCEPT !.chunks = n,
                                  !.op = fn, !.ret = -1, !.calls = @ + 1]
    /\ UNCHANGED <<ringVars, opusVars, frameVars, dispVars, lifeVars,
                   apiButTts>>

\* xn_tts_get_audio_stream(handle, &data, &len)
TtsGetAudioStream ==
    /\ tts.calls < MaxTtsCalls
    /\ tts' = IF ~tts.is_playing
              THEN [tts EXCEPT !.data = "NULL", !.len = 0,
                               !.op = "get", !.ret = 1, !.calls = @ + 1,
                               !.ended = TRUE]
              ELSE IF tts.chunks = 0
              THEN [tts EXCEPT !.is_playing = FALSE,
                               !.data = "NULL", !.len = 0,
                               !.op = "get", !.ret = 1, !.calls = @ + 1,
                               !.ended = TRUE]
              ELSE [tts EXCEPT !.chunks = @ - 1,
                               !.data = "samples", !.len = 1,
                               !.op = "get", !.ret = 0, !.calls = @ + 1]
    /\ UNCHANGED <<ringVars, opusVars, frameVars, dispVars, lifeVars,
                   apiButTts>>

\* xn_tts_get_audio_stream with data or len NULL: return -1
TtsGetAudioStreamInvalid ==
    /\ tts.calls < MaxTtsCalls
    /\ tts' = [tts EXCEPT !.op = "get_invalid", !.ret = -1, !.calls = @ + 1]
    /\ UNCHANGED <<ringVars, opusVars, frameVars, dispVars, lifeVars,
                   apiButTts>>

\* xn_tts_stop(handle)
TtsStop ==
    /\ tts.calls < MaxTtsCalls
    /\ tts' = [TtsStopped(tts) EXCEPT !.op = "stop", !.ret = 0,
                                      !.calls = @ + 1]
    /\ UNCHANGED <<ringVars, opusVars, frameVars, dispVars, lifeVars,
                   apiButTts>>

\* xn_tts_speak_chinese / xn_tts_speak_pinyin with a text, from the call to
\* its return: the parse, then the loop over the stream (to its end, or to
\* the callback's false), is_playing = false, esp_tts_stream_reset
TtsSpeak ==
    /\ tts.calls < MaxTtsCalls
    /\ \E parsed \in BOOLEAN, n \in 0..MaxChunks :
        tts' = IF parsed
               THEN [tts EXCEPT !.is_playing = FALSE, !.chunks = 0,
                                !.op = "speak", !.ret = 0, !.calls = @ + 1]
               ELSE [tts EXCEPT !.chunks = n,
                                !.op = "speak", !.ret = -1, !.calls = @ + 1]
    /\ UNCHANGED <<ringVars, opusVars, frameVars, dispVars, lifeVars,
                   apiButTts>>

TtsNext ==
    \/ \E fn \in {"start_chinese", "start_pinyin"} : TtsStart(fn)
    \/ TtsGetAudioStream \/ TtsGetAudioStreamInvalid
    \/ TtsStop \/ TtsSpeak

\* every variable of the API calls but start, at rest
ApiButStartIdle ==
    /\ stats = StatsIdle
    /\ ocall = OcallIdle
    /\ link = LinkIdle
    /\ ulife = UlifeIdle
    /\ tts = TtsIdle

(***************************************************************************)
(* SpecStart: coze_chat_start step by step, each step succeeding or        *)
(* failing, beside the tasks and callbacks that already run.               *)
(***************************************************************************)
\* a ring buffer that does not exist: the handle field is NULL
PipeAbsent ==
    [alive |-> FALSE, null |-> TRUE, data |-> 0, sem |-> 0,
     task_hit |-> FALSE, writer_hit |-> FALSE]

\* coze_chat_start: simple_ring_buffer_create(256 * 1024)
StartCreateRing ==
    /\ start.pc = "ring"
    /\ \E ok \in BOOLEAN :
          IF ok
            THEN /\ pipe' = [pipe EXCEPT !["parser"] = PipeCreated]
                 /\ start' = [start EXCEPT !.pc = "parser"]
            ELSE /\ start' = [pc |-> "returned", ret |-> "ESP_ERR_NO_MEM"]
                 /\ UNCHANGED pipe
    /\ UNCHANGED <<ringVars, opusVars, frameVars, dispVars,
                   running, task, teardown, transport, build,
                   apiButStart>>

\* coze_chat_start: parser_running = true, the task's memory is allocated
\* and the task created; on either failure the framing buffer is destroyed
StartParserTask ==
    /\ start.pc = "parser"
    /\ running' = [running EXCEPT !["parser"] = TRUE]
    /\ \E ok \in BOOLEAN :
          IF ok
            THEN /\ task' = [task EXCEPT !["parser"] = "test"]
                 /\ start' = [start EXCEPT !.pc = "connect"]
                 /\ UNCHANGED pipe
            ELSE /\ pipe' = [pipe EXCEPT
                         !["parser"] = [PipeDestroy(@) EXCEPT !.null = TRUE]]
                 /\ start' = [pc |-> "returned", ret |-> "ESP_FAIL"]
                 /\ UNCHANGED task
    /\ UNCHANGED <<ringVars, opusVars, frameVars, dispVars,
                   teardown, transport, build,
                   apiButStart>>

\* coze_chat_start: the websocket is made, its callbacks are set and
\* Connect is called; when Connect fails the parser task is deleted and the
\* framing buffer destroyed
StartConnect ==
    /\ start.pc = "connect"
    /\ \E ok \in BOOLEAN :
          IF ok
            THEN /\ transport' = [transport EXCEPT !.open = TRUE]
                 /\ start' = [start EXCEPT !.pc = "uplink"]
                 /\ UNCHANGED <<running, task, pipe>>
            ELSE /\ running' = [running EXCEPT !["parser"] = FALSE]
                 /\ task' = [task EXCEPT !["parser"] = "deleted"]
                 /\ pipe' = [pipe EXCEPT
                         !["parser"] = [PipeDestroy(@) EXCEPT !.null = TRUE]]
                 /\ start' = [pc |-> "returned", ret |-> "ESP_FAIL"]
                 /\ UNCHANGED transport
    /\ UNCHANGED <<ringVars, opusVars, frameVars, dispVars, teardown, build,
                   apiButStart>>

\* coze_chat_start: audio_uplink_start, whose result is returned
StartUplink ==
    /\ start.pc = "uplink"
    /\ \E ok \in BOOLEAN :
          IF ok
            THEN /\ running' = [running EXCEPT !["uplink"] = TRUE]
                 /\ task' = [task EXCEPT !["uplink"] = "test"]
                 /\ start' = [pc |-> "returned", ret |-> "ESP_OK"]
            ELSE /\ start' = [pc |-> "returned", ret |-> "ESP_FAIL"]
                 /\ UNCHANGED <<running, task>>
    /\ UNCHANGED <<ringVars, opusVars, frameVars, dispVars,
                   pipe, teardown, transport, build,
                   apiButStart>>

\* coze_chat_init has returned and coze_chat_start is called: the uplink and
\* downlink modules exist, the decode task runs; no framing buffer, no
\* parser task, no websocket
LifeCreated(forever) ==
    /\ running = [p \in Pipelines |-> p = "decode"]
    /\ task = [p \in Pipelines |-> IF p = "decode" THEN "test" ELSE "none"]
    /\ pipe = [p \in Pipelines |->
                  IF p = "parser" THEN PipeAbsent ELSE PipeCreated]
    /\ teardown = "up"
    /\ transport = [open |-> FALSE, cb |-> "idle", dropped |-> FALSE]
    /\ build = [max_delay_forever |-> forever]
    /\ start = [pc |-> "ring", ret |-> "none"]
    /\ ApiButStartIdle

\* coze_chat_start has returned ESP_OK
ApiIdle ==
    /\ start = [pc |-> "returned", ret |-> "ESP_OK"]
    /\ ApiButStartIdle

\* coze_chat_start has returned: the three tasks run, the websocket is open
LifeStarted(forever) ==
    /\ running = [p \in Pipelines |-> TRUE]
    /\ task = [p \in Pipelines |-> "test"]
    /\ pipe = [p \in Pipelines |-> PipeCreated]
    /\ teardown = "up"
    /\ transport = [open |-> TRUE, cb |-> "idle", dropped |-> FALSE]
    /\ build = [max_delay_forever |-> forever]

LifeIdle == LifeStarted(TRUE) /\ ApiIdle

FrameIdle ==
    /\ net = [msg |-> NoMsg, offset |-> 0, count |-> 0,
              nfrag |-> 0, stale |-> FALSE, sent |-> <<>>, done |-> FALSE,
              calls |-> 0, arg |-> <<>>]
    /\ fragment_buffer_ = <<>>
    /\ cb = [pc |-> "idle", cleared |-> -1]
    /\ parser = [pc |-> "top", msg_len |-> 0, len_bytes |-> <<>>]
    /\ accepted = <<>>
    /\ dispatched = <<>>
    /\ rejected = 0

(***************************************************************************)
(* The specifications.  Each one runs one part of the program; the state   *)
(* of the other parts stays as created.                                    *)
(***************************************************************************)
vars == <<ringVars, opusVars, frameVars, dispVars, lifeVars, apiVars>>

Init == RingInit /\ OpusIdle /\ FrameIdle /\ DispatchIdle /\ LifeIdle

Next == WriterCalls \/ ReaderCallsRead \/ ReaderCallsAvailable \/ RingApi

Spec == Init /\ [][Next]_vars

OpusInit == OpusIdle /\ RingInit /\ FrameIdle /\ DispatchIdle /\ LifeIdle

OpusNext == OpusWrites \/ OpusReadsEmpty \/ OpusReads

SpecOpus == OpusInit /\ [][OpusNext]_vars

DownlinkNext == DownlinkCalls \/ DecodeTaskPacket \/ DecodeTaskEmpty

SpecDownlink == OpusInit /\ [][DownlinkNext]_vars

DispatchInit ==
    /\ RingInit /\ OpusIdle /\ FrameIdle /\ LifeIdle
    /\ playback = PlaybackIdle(1000)
    /\ session \in SessionConfigs
    /\ hlast = NoDispatch

DispatchNext == Dispatches

SpecDispatch == DispatchInit /\ [][DispatchNext]_vars

PlaybackInit ==
    /\ RingInit /\ OpusIdle /\ FrameIdle /\ LifeIdle
    /\ session \in SessionConfigs
    /\ hlast = NoDispatch
    /\ \E hz \in TickRates : playback = PlaybackIdle(hz)

PlaybackNext == AudioCallbackEnter \/ AudioCallbackDelay \/ AudioCallbackPlay

SpecPlayback == PlaybackInit /\ [][PlaybackNext]_vars

TeardownInit ==
    /\ RingInit /\ OpusIdle /\ FrameIdle /\ DispatchIdle
    /\ \E forever \in BOOLEAN : LifeStarted(forever)
    /\ ApiIdle

TaskNext ==
    \E p \in Pipelines :
        \/ TaskLoop(p) \/ TaskWake(p) \/ TaskWaitTimeout(p)
        \/ TaskRead(p) \/ TaskWork(p)

TaskDeletedNext ==
    \E p \in Pipelines : TaskWaitDeleted(p) \/ TaskReadDeleted(p)

TeardownNext ==
    \/ UplinkStopFlag \/ UplinkStopDelay \/ ParserStopFlag \/ ParserStopDelay
    \/ WsRingDestroy \/ WebsocketClose \/ UplinkDestroy
    \/ DownlinkStopFlag \/ DownlinkStopDelay \/ OpusBufferDestroy

ProducerNext == UplinkWrite \/ OnDataEnter \/ OnDataLenWrite \/ OnDataWrite

StatsNext ==
    \/ StatsProcessEnter \/ StatsProcessStoreTotal
    \/ StatsProcessLoad \/ StatsProcessStore
    \/ StatsDecodeIteration \/ StatsDecodeLoad \/ StatsDecodeStore
    \/ StatsReset

SpecStats == OpusInit /\ [][StatsNext]_vars

SpecLocks == OpusInit /\ [][LocksNext]_vars

SpecSend == OpusInit /\ [][SendNext]_vars

SpecUplinkLife == OpusInit /\ [][UplinkLifeNext]_vars

SpecSession == OpusInit /\ [][SessionNext]_vars

SpecTts == OpusInit /\ [][TtsNext]_vars

SpecWake ==
    /\ OpusInit /\ [][WakeNext]_vars
    /\ WF_vars(WriteTakeMutex) /\ WF_vars(WriteCritical) /\ WF_vars(WriteGiveSem)
    /\ WF_vars(ReadCheckWait) /\ WF_vars(ReadCheckGo) /\ WF_vars(ReadTakeSem)
    /\ WF_vars(ReadTakeMutex) /\ WF_vars(ReadCritical)
    /\ WF_vars(OpusLockWriteTakeMutex) /\ WF_vars(OpusLockWriteCritical)
    /\ WF_vars(OpusLockWriteGiveSem)
    /\ WF_vars(OpusLockReadTakeSem) /\ WF_vars(OpusLockReadTakeMutex)
    /\ WF_vars(OpusLockReadCritical)

\* json_parser_task dispatching beside opus_decode_task
DispatchDecodeNext == Dispatches \/ DecodeTaskPacket \/ DecodeTaskEmpty

SpecDispatchDecode == OpusInit /\ [][DispatchDecodeNext]_vars

StartInit ==
    /\ RingInit /\ OpusIdle /\ FrameIdle /\ DispatchIdle
    /\ \E forever \in BOOLEAN : LifeCreated(forever)

StartNext ==
    StartCreateRing \/ StartParserTask \/ StartConnect \/ StartUplink

SpecStart == StartInit /\ [][StartNext \/ TaskNext \/ ProducerNext]_vars

LifeNext == TaskNext \/ TaskDeletedNext \/ TeardownNext \/ ProducerNext

SpecTeardown == TeardownInit /\ [][LifeNext]_vars

\* The scheduler runs every ready task and the thread inside
\* coze_chat_deinit; a finite semaphore timeout expires.  Nothing obliges
\* the recorder or the server to deliver data, and nothing is promised of a
\* wait on a deleted semaphore.
SpecTeardownFair ==
    /\ SpecTeardown
    /\ \A p \in Pipelines :
          /\ WF_vars(TaskLoop(p)) /\ WF_vars(TaskWake(p))
          /\ WF_vars(TaskWaitTimeout(p))
          /\ WF_vars(TaskRead(p)) /\ WF_vars(TaskWork(p))
    /\ WF_vars(TeardownNext)
    /\ WF_vars(OnDataLenWrite) /\ WF_vars(OnDataWrite)

\* coze_chat_start has created the framing buffer and the parser task and has
\* set the callbacks; every wait for a lock or for data_sem ends before its
\* timeout
FramingInit ==
    RingCreated(WsRingSize) /\ OpusIdle /\ FrameIdle /\ DispatchIdle /\ LifeIdle

FramingNext ==
    \/ WsFirstFragment \/ WsNextFragment \/ CbLenWritten \/ CbDataWritten
    \/ WriteTakeMutex \/ WriteCritical \/ WriteGiveSem
    \/ ParserReadLen \/ ParserLenRefused \/ ParserReadData
    \/ ParserDataShort \/ ParserDispatch
    \/ ReadCheckWait \/ ReadCheckGo \/ ReadTakeSem \/ ReadTakeMutex
    \/ ReadCritical

SpecFraming == FramingInit /\ [][FramingNext]_vars

\* the same with a framing buffer that the messages delivered fill
FramingSmallInit ==
    RingCreated(SmallRingSize) /\ OpusIdle /\ FrameIdle /\ DispatchIdle /\ LifeIdle

SpecFramingSmall == FramingSmallInit /\ [][FramingNext]_vars

\* the same, where a bounded wait for rb->mutex (100 ms in write and clear,
\* 50 ms in read) can expire while the other task holds it
FramingFailNext ==
    \/ FramingNext
    \/ WriteMutexTimeout \/ ReadMutexTimeout
    \/ CbLenWriteFailed \/ CbDataWriteFailed
    \/ ClearCritical \/ ClearMutexTimeout

SpecFramingFail == FramingInit /\ [][FramingFailNext]_vars

ReassemblyNext == ReasmFirstFragment \/ ReasmNextFragment \/ ReasmDisconnect

SpecReassembly == FramingInit /\ [][ReassemblyNext]_vars

(***************************************************************************)
(* Claims about the byte ring buffer, checked under Spec.                  *)
(***************************************************************************)
\* every byte written so far has been returned by a read or is still unread
NothingLost == rlog \o Unread(rb) = Labels(1, wcount)

\* C5 (as claimed): as long as no write needed more than C unread bytes, reads
\* return exactly the bytes written, in order, none missing.
C5_ExactUpToCapacity == peak <= RbSize => NothingLost

\* C5 (amended): as long as no write needed more than C - 1 unread bytes, reads
\* return exactly the bytes written, in order, none missing.
C5_ExactBelowCapacity == peak <= RbSize - 1 => NothingLost

\* the buffer wrapped around, was filled to C - 1 bytes and was read empty
C5_Witness ==
    /\ peak = RbSize - 1
    /\ wcount > RbSize
    /\ Len(rlog) = wcount
    /\ last.op = "read"

BurstBefore == last.pop = "write" /\ Len(last.pdata) > RbSize

\* C6 (as claimed): after one write of more than C bytes, available reports C
\* and a read returns exactly the last C bytes written.
C6_BurstKeepsC ==
    /\ (last.op = "available" /\ BurstBefore) => last.ret = RbSize
    /\ (last.op = "read" /\ BurstBefore /\ last.len >= RbSize)
          => last.out = LastN(last.pdata, RbSize)

\* C6 (amended): after one write of more than C bytes, available (when it gets
\* the lock) reports C - 1 and a read of at least C - 1 bytes returns exactly
\* the last C - 1 bytes written.
C6_BurstKeepsCMinus1 ==
    /\ (last.op = "available" /\ BurstBefore) => last.ret = RbSize - 1
    /\ (last.op = "read" /\ BurstBefore /\ last.len >= RbSize - 1)
          => last.out = LastN(last.pdata, RbSize - 1)

\* a read right after a burst into a buffer whose cursors were not at 0
C6_Witness ==
    /\ last.op = "read" /\ BurstBefore
    /\ last.len >= RbSize
    /\ Len(last.out) = RbSize - 1
    /\ last.pdata[1] > 1

WriteReturned == wcall.pc = "idle" /\ Len(wcall.data) > 0 /\ wcall.ret # "none"

\* C7 (as claimed): a write with len > 0 always returns ESP_OK and stores the
\* bytes.
C7_WriteAlwaysOk ==
    WriteReturned =>
        wcall.ret = "ESP_OK" /\ wcount >= wcall.data[Len(wcall.data)]

\* C7 (amended): a write with len > 0 returns ESP_OK after storing the bytes,
\* whatever the occupancy, unless the mutex is not obtained within 100 ms: then
\* it returns ESP_ERR_TIMEOUT and none of its bytes is stored.
C7_WriteOkOrTimeout ==
    WriteReturned =>
        \/ wcall.ret = "ESP_OK" /\ wcount >= wcall.data[Len(wcall.data)]
        \/ wcall.ret = "ESP_ERR_TIMEOUT" /\ wcount < wcall.data[1]

\* a write into a full buffer returned ESP_OK while the reader was inside a call
C7_Witness ==
    /\ WriteReturned /\ wcall.ret = "ESP_OK"
    /\ last.op = "write" /\ Len(last.pre) = RbSize - 1
    /\ rcall.pc = "take_sem"

\* C8: write_pos and read_pos stay in [0, C), and a write that overflows the
\* buffer drops only the oldest unread bytes: what remains unread is the end of
\* (unread before the write) followed by (the bytes written), in that order.
C8_CursorsAndOverwrite ==
    /\ rb.write_pos \in 0..(rb.size - 1)
    /\ rb.read_pos \in 0..(rb.size - 1)
    /\ last.op = "write" =>
          Unread(rb) = LastN(last.pre \o last.data,
                             Min(Len(last.pre) + Len(last.data), rb.size - 1))

\* a write found unread bytes, overflowed, and left some of the old bytes
C8_Witness ==
    /\ last.op = "write"
    /\ Len(last.pre) + Len(last.data) > rb.size - 1
    /\ Len(last.data) < rb.size - 1
    /\ rb.read_pos < rb.write_pos

\* C9: the bytes returned by reads are, in order, a subsequence of the bytes
\* written (the k-th byte written has value k): no byte is returned twice, out
\* of order, or without having been written.
C9_ReadsAreSubsequence ==
    \A i \in 1..Len(rlog) :
        /\ rlog[i] \in 1..wcount
        /\ i > 1 => rlog[i - 1] < rlog[i]

\* bytes were dropped between two reads while the writer was inside a call
C9_Witness ==
    /\ Len(rlog) >= 2
    /\ \E i \in 2..Len(rlog) : rlog[i] > rlog[i - 1] + 1
    /\ wcall.pc = "give_sem"
    /\ last.op = "read"

(***************************************************************************)
(* Claims about the packet buffer, checked under SpecOpus.                 *)
(***************************************************************************)
\* C3: as long as every read is given a destination of max_packet_size bytes,
\* the k-th successful read returns exactly the k-th accepted packet.
C3_ReadsReturnWritesInOrder ==
    (~ohist.small /\ olast.op = "read" /\ olast.ret = "ESP_OK") =>
        /\ ohist.nread <= Len(ohist.written)
        /\ olast.out = ohist.written[ohist.nread]

\* C4: from an empty buffer (count = 0) N writes in a row succeed, the next
\* one returns ESP_ERR_NO_MEM and changes nothing, and the reads that follow
\* return the N packets in the order they were written.
C4_FillRejectReadBack ==
    /\ (olast.op = "write" /\ Len(olast.data) \in 1..OpusMaxPacket) =>
          /\ olast.count0 < OpusCapacity => olast.ret = "ESP_OK"
          /\ olast.count0 >= OpusCapacity =>
                olast.ret = "ESP_ERR_NO_MEM" /\ olast.kept
    /\ (ohist.run /\ ohist.rej) => Len(ohist.w) = OpusCapacity
    /\ (ohist.run /\ ohist.rej /\ ohist.r >= 1 /\ olast.op = "read") =>
          olast.ret = "ESP_OK" /\ olast.out = ohist.w[ohist.r]

(***************************************************************************)
(* Claims about the framing layer, checked under SpecFraming.              *)
(***************************************************************************)
\* everything delivered has been consumed: no message is being delivered, the
\* callback has returned, the buffer is empty and the parser task is blocked
\* on data_sem in its read of a length
Quiescent ==
    /\ net.msg = NoMsg
    /\ cb.pc = "idle" /\ wcall.pc = "idle"
    /\ rb.read_pos = rb.write_pos
    /\ parser.pc = "len_read" /\ rcall.pc = "take_sem"
    /\ data_sem = 0

DispatchedValues == [k \in 1..Len(dispatched) |-> Values(dispatched[k])]

IsPrefixOf(s, t) == Len(s) <= Len(t) /\ \A k \in 1..Len(s) : s[k] = t[k]

\* d is the payload of one message the callback wrote, whole and unaltered
IsWrittenMessage(d) ==
    \E m \in 1..Len(accepted) : d = Tagged(accepted[m], m, LenSize + 1)

\* the two bytes are the length prefix of one message
IsLengthPrefix(bytes) ==
    /\ Len(bytes) = LenSize
    /\ bytes[1].i = 1 /\ bytes[2].i = 2
    /\ bytes[1].m = bytes[2].m

AllWithinParserLimit == \A m \in 1..Len(accepted) : Len(accepted[m]) <= MAX_JSON_SIZE

\* C1: when every text message delivered has 1..65535 bytes, the messages
\* handed to handle_coze_message are at any time the first of the messages
\* delivered, byte for byte and in order, and once everything delivered has
\* been consumed they are all of them.
C1_DispatchedEqualsDelivered ==
    rejected = 0 =>
        /\ IsPrefixOf(DispatchedValues, accepted)
        /\ Quiescent => DispatchedValues = accepted

\* C2: under every interleaving of the callback's two writes and the parser's
\* two reads, the two bytes the parser takes as a length are the length
\* prefix of a message, and every message dispatched is one whole message as
\* it was written (here even with every message within the parser's limit).
C2_NoPartialNoPayloadAsLength ==
    AllWithinParserLimit =>
        /\ parser.len_bytes # <<>> => IsLengthPrefix(parser.len_bytes)
        /\ \A k \in 1..Len(dispatched) : IsWrittenMessage(dispatched[k])

\* C10: a step that rejects a message longer than 65535 bytes leaves the
\* framing buffer and its write call untouched; no dispatched message is that
\* long; and the valid messages before and after it (within the parser's
\* limit) are dispatched intact: they are a prefix of the dispatched sequence
\* at any time and all of it once everything delivered has been consumed.
C10_RejectedLeavesOthersIntact ==
    [][/\ rejected' # rejected => UNCHANGED <<rb, wcall, data_sem, accepted>>
       /\ \A k \in 1..Len(dispatched') : Len(dispatched'[k]) <= U16Max
       /\ (rejected' >= 1 /\ AllWithinParserLimit') =>
             /\ IsPrefixOf(DispatchedValues', accepted')
             /\ Quiescent' => DispatchedValues' = accepted']_vars

\* C11: the callback and the parser apply the same maximum: whenever the
\* parser has read the genuine length prefix of a queued message, the length
\* passes its validation 0 < length <= MAX_JSON_SIZE.
C11_AcceptedPassesParserCheck ==
    (parser.len_bytes # <<>> /\ IsLengthPrefix(parser.len_bytes)) =>
        /\ parser.msg_len > 0
        /\ parser.msg_len <= MAX_JSON_SIZE

\* C12: once the callback has cleared the buffer after a failed payload write,
\* every two bytes the parser takes as a length out of what was written after
\* the clear are the length prefix of one message.
C12_ClearResynchronizes ==
    (/\ cb.cleared >= 0
     /\ parser.len_bytes # <<>>
     /\ parser.len_bytes[1].m > cb.cleared) =>
        IsLengthPrefix(parser.len_bytes)

(***************************************************************************)
(* Claims about the reassembly of fragments, checked under SpecReassembly. *)
(***************************************************************************)
\* C13: while fragments of a message are still to come on_data_ has not been
\* invoked for it; once its last fragment has been delivered on_data_ has
\* been invoked exactly once, with the bytes of all its fragments in arrival
\* order.
C13_CallbackOnceWithWholeMessage ==
    /\ ~net.done => net.calls = 0
    /\ net.done => /\ net.calls = 1
                   /\ net.arg = net.sent

\* a message delivered in at least three fragments, begun while
\* fragment_buffer_ still held the fragments of a message that the connection
\* dropped half-way
C13_Witness ==
    /\ net.done
    /\ net.nfrag >= 3
    /\ net.stale
    /\ Len(net.sent) > ByteBase

(***************************************************************************)
(* Claims about the downlink, checked under SpecDownlink.                  *)
(***************************************************************************)
\* the latest step was audio_downlink_process with a valid packet
ProcessedValid ==
    /\ olast.op = "write"
    /\ Len(olast.data) \in 1..OpusMaxPacket
    /\ downlink.ret # "none"

\* C14: a call of audio_downlink_process with a valid packet queues it and
\* leaves buffer_full_count alone while fewer than N packets are stored; with
\* N stored it returns failure, adds one to buffer_full_count and changes
\* nothing in the buffer; and after N calls into an empty buffer and such a
\* refused call the N packets are stored intact: the decode task then reads
\* them as they were queued.
C14_FillThenOneDrop ==
    /\ ProcessedValid =>
          /\ olast.count0 < OpusCapacity =>
                /\ downlink.ret = "ESP_OK"
                /\ downlink.buffer_full_count = downlink.full0
          /\ olast.count0 >= OpusCapacity =>
                /\ downlink.ret = "ESP_FAIL"
                /\ downlink.buffer_full_count = downlink.full0 + 1
                /\ olast.kept
    /\ (ohist.run /\ ohist.rej) => Len(ohist.w) = OpusCapacity
    /\ (ohist.run /\ ohist.rej /\ ohist.r >= 1 /\ olast.op = "read") =>
          /\ olast.ret = "ESP_OK"
          /\ olast.out = ohist.w[ohist.r]

\* C15: a read whose destination is smaller than the oldest packet fails with
\* ESP_ERR_INVALID_SIZE and removes that packet (count goes down by one); the
\* successful read after it returns the next packet as it was written.
C15_SmallDestinationDropsPacket ==
    /\ (olast.op = "read" /\ olast.ret = "ESP_ERR_INVALID_SIZE") =>
          ob.count = olast.count0 - 1
    /\ (/\ olast.op = "read" /\ olast.ret = "ESP_OK"
        /\ ohist.lost >= 1
        /\ ohist.nread + ohist.lost <= Len(ohist.written)) =>
          olast.out = ohist.written[ohist.nread + ohist.lost]

(***************************************************************************)
(* Claims about handle_coze_message, checked under SpecDispatch.           *)
(***************************************************************************)
\* the step is a call of handle_coze_message with an `error` envelope
ErrorDispatched == hlast'.tick # hlast.tick /\ hlast'.event_type = "error"

Dispatched(types) ==
    hlast'.tick # hlast.tick /\ hlast'.event_type \in types

\* C25: the dispatch of a terminal event (conversation.message.completed,
\* conversation.audio.completed, conversation.chat.completed,
\* conversation.chat.failed, error) in a session with an event callback
\* invokes that callback exactly once.
C25_TerminalEventOneCallback ==
    [][(/\ Dispatched({"conversation.message.completed",
                       "conversation.audio.completed",
                       "conversation.chat.completed",
                       "conversation.chat.failed", "error"})
        /\ session.event_callback)
          => Len(hlast'.events) = 1]_vars

\* C26: the dispatch of an envelope whose event_type is not recognized
\* changes no session field (connected, session_created, session_id,
\* conversation_id included), invokes no event callback, does not call
\* audio_downlink_process and leaves the packet buffer and the downlink's
\* counters alone.
C26_UnknownEventChangesNothing ==
    [][Dispatched({"unknown.event"}) =>
          /\ session' = session
          /\ hlast'.events = <<>>
          /\ hlast'.audio = 0
          /\ UNCHANGED <<ob, downlink>>]_vars

\* an unrecognized event has been dispatched in a connected session with an
\* event callback, before chat.created, with a packet waiting
C26_Witness ==
    /\ hlast.event_type = "unknown.event"
    /\ session.event_callback
    /\ session.connected
    /\ ~session.session_created
    /\ ob.count > 0

(***************************************************************************)
(* Claims about coze_audio_callback, checked under SpecPlayback.           *)
(***************************************************************************)
\* C17: when coze_audio_callback has returned for a frame, it has called
\* audio_manager_play_audio exactly once, with all samples of the frame,
\* whatever the free space; and when the free space was below MIN_FREE_SPACE
\* it has called vTaskDelay once, before, for samples * 1000 / 16000 ms.
C17_DelayThenPlayOnce ==
    /\ playback.plays = (IF playback.pc = "idle" THEN playback.frames
                         ELSE playback.frames - 1)
    /\ (playback.pc = "idle" /\ playback.frames > 0) =>
          /\ playback.played = playback.samples
          /\ playback.free_space < 32 * 1024 =>
                /\ playback.log = <<"vTaskDelay", "audio_manager_play_audio">>
                /\ playback.delay_ms = (playback.samples * 1000) \div 16000
                /\ playback.ticks =
                      (playback.delay_ms * playback.hz) \div 1000
          /\ playback.free_space >= 32 * 1024 =>
                playback.log = <<"audio_manager_play_audio">>

\* a frame of 960 samples delivered with no free space at all: 60 ms
C17_Witness ==
    /\ playback.pc = "idle"
    /\ playback.frames > 0
    /\ playback.free_space = 0
    /\ playback.samples = 960
    /\ playback.delay_ms = 60
    /\ playback.plays = playback.frames

(***************************************************************************)
(* Claims about stopping the pipelines, checked under SpecTeardown and     *)
(* SpecTeardownFair.                                                       *)
(***************************************************************************)
\* C18: once the running flag of a pipeline task is cleared, the task
\* eventually exits, whether or not data arrives in its ring buffer.
C18_ClearedFlagLeadsToExit ==
    \A p \in Pipelines : (~running[p]) ~> (task[p] = "exited")

\* C19: no task waits on, reads from or writes to a ring buffer that has
\* been destroyed: a task inside a read finds its buffer alive, and no call
\* of a task has used a destroyed buffer.
C19_NoTaskUsesDestroyedBuffer ==
    \A p \in Pipelines :
        /\ task[p] \in {"wait", "read"} => pipe[p].alive
        /\ ~pipe[p].task_hit
        /\ (p = "decode") => ~pipe[p].writer_hit

\* C20: the framing ring buffer is destroyed only when the transport is
\* closed, and the data callback is never inside a write to, and has never
\* written to, a destroyed framing buffer.
C20_TransportClosedBeforeRingDestroyed ==
    /\ ~pipe["parser"].alive => ~transport.open
    /\ transport.cb \in {"len", "data"} => pipe["parser"].alive
    /\ ~pipe["parser"].writer_hit

(***************************************************************************)
(* Claims about coze_chat_start, checked under SpecStart.                  *)
(***************************************************************************)
\* C21: when coze_chat_start has returned an error, whichever step failed,
\* no parser task runs, no framing buffer exists and the transport is not
\* connected.
C21_FailedStartReleasesAll ==
    (start.pc = "returned" /\ start.ret # "ESP_OK") =>
        /\ task["parser"] \in {"none", "deleted"}
        /\ ~pipe["parser"].alive
        /\ ~transport.open

(***************************************************************************)
(* Claims about the downlink's counters, checked under SpecStats.          *)
(***************************************************************************)
\* C24: no step other than an audio_downlink_reset_stats call makes
\* total_packets, error_count or buffer_full_count smaller.
C24_CountersOnlyGrow ==
    [][stats'.resets = stats.resets =>
          /\ downlink'.total_packets >= downlink.total_packets
          /\ downlink'.error_count >= downlink.error_count
          /\ downlink'.buffer_full_count >= downlink.buffer_full_count]_vars

(***************************************************************************)
(* Claims about the lock order of the two buffers.                         *)
(***************************************************************************)
\* the task inside simple_ring_buffer_read / opus_buffer_read is blocked in
\* xSemaphoreTake(data_sem)
RingReaderWaits == rcall.pc = "take_sem"
OpusReaderWaits == ocall.r.pc = "take_sem"

\* C22: in both buffer types, while the reader waits on data_sem it does not
\* hold the buffer's mutex, and a writer that has reached its
\* xSemaphoreTake(mutex) finds the mutex free: the reader's wait never keeps
\* the writer from the lock.
C22_NoMutexAcrossWait ==
    /\ RingReaderWaits =>
           /\ mutex # "R"
           /\ wcall.pc = "take_mutex" => mutex = "free"
    /\ OpusReaderWaits =>
           /\ ocall.mutex # "R"
           /\ ocall.w.pc = "take_mutex" => ocall.mutex = "free"

\* in each buffer a reader waits on an untaken semaphore while a writer is
\* about to take the mutex
C22_Witness ==
    /\ RingReaderWaits /\ wcall.pc = "take_mutex" /\ data_sem = 0
    /\ OpusReaderWaits /\ ocall.w.pc = "take_mutex" /\ ob.data_sem = 0

\* C23: a simple_ring_buffer_read with timeout_ms > 0 that found the buffer
\* empty returns 0 only by the expiry of its wait on data_sem (nothing was
\* written during the wait), never from a wait that ended at once.  (The
\* return of 0 after the 50 ms wait for the mutex is left aside.)
C23_ZeroOnlyAfterTimeout ==
    [][(/\ rcall.op = "read" /\ rcall.timeout_ms > 0
        /\ rcall.pc \in {"take_sem", "locked"}
        /\ rcall'.pc = "idle" /\ rcall'.ret = 0)
       => (rcall.pc = "take_sem" /\ data_sem = 0)]_vars

(***************************************************************************)
(* Claims about the send path.                                             *)
(***************************************************************************)
\* the application's task enters coze_chat_send_audio_data
SendAudioBegins == wcall.pc = "idle" /\ wcall' # wcall

\* C27 as stated: a coze_chat_send_audio_data entered while connected is
\* false returns an error and leaves the capture buffer as it is, and bytes
\* are stored in the capture buffer only while connected is true.
C27_AudioOnlyWhileConnected ==
    [][/\ (SendAudioBegins /\ ~session.connected) =>
              /\ wcall'.pc = "idle" /\ wcall'.ret = "ESP_FAIL"
              /\ UNCHANGED <<rb, wcount, data_sem>>
       /\ wcount' # wcount => session.connected]_vars

\* C27, amended: a coze_chat_send_audio_data that finds connected false
\* returns ESP_FAIL and leaves the capture buffer as it is; bytes are stored
\* in the capture buffer only by a call that found connected true (connected
\* may have been cleared since).
C27_DisconnectedCallRejected ==
    [][/\ (SendAudioBegins /\ ~session.connected) =>
              /\ wcall'.pc = "idle" /\ wcall'.ret = "ESP_FAIL"
              /\ UNCHANGED <<rb, wcount, data_sem>>
       /\ wcount' # wcount => (wcall.pc = "loop" /\ wcall.ret # "ESP_FAIL")]_vars

\* a call was rejected after the connection that had let audio in was lost
C27_Witness ==
    /\ ~session.connected /\ link.nconn > 0
    /\ wcall.pc = "idle" /\ wcall.ret = "ESP_FAIL"
    /\ wcount > 0

\* C28: the chat.update messages handed to CozeWebSocket::Send are as many as
\* the Connected notifications of the transport, the one whose callback is
\* still running apart: one per notification and none from anywhere else.
C28_OneUpdatePerConnect ==
    link.sent["chat.update"] + (IF link.cb = "update" THEN 1 ELSE 0) = link.nconn

\* the transport has connected twice and other messages were sent as well
C28_Witness ==
    /\ link.nconn = 2
    /\ link.cb = "idle"
    /\ link.sent["input_audio_buffer.append"] > 0
    /\ link.sent["input_audio_buffer.clear"] > 0

\* C29: while the capture buffer has not overflowed, the frames
\* audio_uplink_task has passed on are, concatenated, a prefix of the bytes
\* captured.
C29_FramesArePrefix ==
    peak <= rb.size - 1 => IsPrefixOf(link.pcm, Labels(1, wcount))

(***************************************************************************)
(* Claims about the framing buffer's read cursor.                          *)
(***************************************************************************)
\* json_parser_task calls simple_ring_buffer_read for a length prefix
ParserBeginsPrefix == parser.pc = "top" /\ parser'.pc = "len_read"

\* C30: whenever json_parser_task begins reading a length prefix and the
\* framing buffer is not empty, the byte at the read cursor is the first
\* byte of a length prefix the callback wrote.
C30_CursorAtPrefix ==
    [][(ParserBeginsPrefix /\ Unread(rb) # <<>>) => Unread(rb)[1].i = 1]_vars

\* a task completes an error_count++: the store that follows its load
ErrorCountStored ==
    \/ stats.process.pc = "error_store" /\ stats'.process.pc = "idle"
    \/ stats.decode.pc = "error_store" /\ stats'.decode.pc = "idle"

\* C40: every failure counted is counted once: each completed error_count++
\* (of audio_downlink_process after a base64 failure, of opus_decode_task
\* after a decode failure) leaves error_count one larger than it was (here
\* with no audio_downlink_reset_stats call made so far).
C40_NoIncrementLost ==
    [][(ErrorCountStored /\ stats.resets = 0) =>
          downlink'.error_count = downlink.error_count + 1]_vars

(***************************************************************************)
(* Claims about opus_decode_task, checked under SpecDownlink.              *)
(***************************************************************************)
\* opus_decode_task takes a packet out of the packet buffer
DecodeTakesPacket ==
    /\ olast'.op = "read"
    /\ ohist'.nread + ohist'.lost = ohist.nread + ohist.lost + 1

\* C31: each packet opus_decode_task takes out of the buffer is the oldest
\* packet queued and not yet taken, as it was queued, and leads to exactly one
\* of: the callback called once with it (and in queue order), or error_count
\* incremented by one.
C31_EachPacketPlayedOrCounted ==
    [][DecodeTakesPacket =>
          LET k == ohist.nread + ohist.lost + 1
          IN  /\ k <= Len(ohist.written)
              /\ olast'.ret = "ESP_OK"
              /\ olast'.out = ohist.written[k]
              /\ \/ /\ downlink'.played = Append(downlink.played, ohist.written[k])
                    /\ downlink'.error_count = downlink.error_count
                 \/ /\ downlink'.played = downlink.played
                    /\ downlink'.error_count = downlink.error_count + 1]_vars

(***************************************************************************)
(* Claims about the uplink task's lifecycle, checked under SpecUplinkLife. *)
(***************************************************************************)
\* C32: over any sequence of audio_uplink_start and audio_uplink_stop calls
\* at most one audio_uplink_task exists at a time.
C32_AtMostOneTask == Cardinality(AliveTasks) <= 1

\* audio_uplink_task finishes a frame whose Opus or base64 encoding failed
EncodingFailed == link.pc = "reading" /\ link'.pc = "idle" /\ link'.enc = "failed"

\* C33: when the encoding of a frame fails, nothing is handed to the send
\* callback for it, the task goes on to its next read, and one of the
\* counters the uplink keeps is incremented by one.
C33_EncodeFailureCounted ==
    [][EncodingFailed =>
          /\ link'.sent = link.sent
          /\ \E c \in DOMAIN link.counters :
                link'.counters[c] = link.counters[c] + 1]_vars


\* audio_uplink_task hands an input_audio_buffer.append message to Send
AppendSent ==
    link'.sent["input_audio_buffer.append"] >
        link.sent["input_audio_buffer.append"]

\* C37: on each connection chat.update is the first message handed to the
\* transport: no input_audio_buffer.append is sent between the Connected
\* notification and the chat.update its callback sends.
C37_UpdateSentFirst == [][AppendSent => link.cb # "update"]_vars


\* the connection ends: a Disconnected notification or coze_chat_stop clears
\* connected
ConnectionEnds == session.connected /\ ~session'.connected

\* C38: session_created is true only for a chat.created dispatched on the
\* current connection: when the connection ends, by Disconnected or by
\* coze_chat_stop, session_created is false.
C38_CreatedEndsWithConnection ==
    [][ConnectionEnds => ~session'.session_created]_vars


\* C34: whenever handle_coze_message has returned, the cJSON tree it parsed
\* from the envelope has been released.
C34_TreeReleased == hlast.root # "live"

\* json_parser_task dispatches a conversation.audio.delta envelope
AudioDeltaDispatched ==
    /\ hlast'.tick # hlast.tick
    /\ hlast'.event_type = "conversation.audio.delta"

RingBlockedAndWritten ==
    /\ rcall.pc = "take_sem" /\ rcall.timeout_ms = PortMaxDelay
    /\ data_sem = 0
    /\ wcall.pc = "give_sem"
    /\ Len(Unread(rb)) > 0

\* the same in opus_buffer_read and opus_buffer_write
OpusBlockedAndWritten ==
    /\ ocall.r.pc = "take_sem" /\ ocall.r.timeout_ms = PortMaxDelay
    /\ ob.data_sem = 0
    /\ ocall.w.pc = "give_sem"
    /\ ob.count > 0

TtsGetReturns == tts'.calls = tts.calls + 1 /\ tts'.op = "get"

\* xn_tts_start_chinese or xn_tts_start_pinyin returns -1
TtsStartFails ==
    /\ tts'.calls = tts.calls + 1
    /\ tts'.op \in {"start_chinese", "start_pinyin"}
    /\ tts'.ret = -1

\* C39: once the instance was stopped or xn_tts_get_audio_stream returned 1,
\* and until a start succeeds, xn_tts_get_audio_stream returns 1 with *data
\* NULL and *len 0; a start that fails leaves the instance not playing.
C39_EndedStaysEnded ==
    [][/\ (TtsGetReturns /\ tts.ended) =>
              tts'.ret = 1 /\ tts'.data = "NULL" /\ tts'.len = 0
       /\ TtsStartFails => ~tts'.is_playing]_vars

\* a parse failed and left the stream with audio; later the instance, ended
\* and not playing, was asked for audio
C39_Witness ==
    /\ tts.op = "get" /\ tts.ret = 1 /\ tts.calls = 4
    /\ tts.ended /\ ~tts.is_playing /\ tts.chunks > 0

=============================================================================
